---- MODULE Spec2Model ----
(***************************************************************************)
(* Vision brain (services/vision-brain): the extraction orchestrator       *)
(* extract_from_image, the GPU inference client with its retry wrapper,    *)
(* the preprocessing pipeline and the response parser.                     *)
(*                                                                         *)
(* Conventions.  A Python str is a sequence of atoms (one-character        *)
(* strings such as "{" or "\"", and multi-character atoms standing for a   *)
(* run of ordinary characters such as "Max" or "<think>").  f-string       *)
(* interpolation is concatenation (\o), str.strip() removes leading and    *)
(* trailing whitespace atoms.  A parsed JSON value is a record             *)
(* [type, s, items].  Confidences are in hundredths, clock values in       *)
(* microseconds.                                                           *)
(***************************************************************************)
EXTENDS Integers, Sequences, FiniteSets, TLC

(***************************************************************************)
(* Strings                                                                 *)
(***************************************************************************)
WS == {" ", "\n"}

RECURSIVE LStrip(_)
LStrip(s) == IF s # <<>> /\ Head(s) \in WS THEN LStrip(Tail(s)) ELSE s

RECURSIVE RStrip(_)
RStrip(s) ==
    IF s # <<>> /\ s[Len(s)] \in WS THEN RStrip(SubSeq(s, 1, Len(s) - 1)) ELSE s

\* str.strip()
Strip(s) == RStrip(LStrip(s))

\* index of the first atom of s at or after i that lies in set, Len(s)+1 if none
RECURSIVE FindFirst(_, _, _)
FindFirst(s, i, set) ==
    IF i > Len(s) THEN Len(s) + 1
    ELSE IF s[i] \in set THEN i
    ELSE FindFirst(s, i + 1, set)

(***************************************************************************)
(* json.loads, on the subset of JSON the model texts use: objects, arrays, *)
(* strings without escapes, integer number atoms, true / false / null.     *)
(***************************************************************************)
NumberAtoms == {"42", "1", "2", "3"}

JStr(s) == [type |-> "str", s |-> s, items |-> <<>>]
JScalar(t, a) == [type |-> t, s |-> <<a>>, items |-> <<>>]
JArr(items) == [type |-> "arr", s |-> <<>>, items |-> items]
JObj(items) == [type |-> "obj", s |-> <<>>, items |-> items]

PFail == [ok |-> FALSE, val |-> JScalar("null", "null"), next |-> 0]
POk(v, n) == [ok |-> TRUE, val |-> v, next |-> n]

RECURSIVE SkipWs(_, _)
SkipWs(s, i) == IF i <= Len(s) /\ s[i] \in WS THEN SkipWs(s, i + 1) ELSE i

\* variant: every pair of the text is kept, repeated keys included
DictPut_KeepAll(items, k, v) == Append(items, [k |-> k, v |-> v])

\* dict[k] = v: a repeated key keeps its first position and takes the last value
DictPut(items, k, v) ==
    IF \E n \in 1..Len(items) : items[n].k = k
    THEN [n \in 1..Len(items) |->
            IF items[n].k = k THEN [k |-> k, v |-> v] ELSE items[n]]
    ELSE Append(items, [k |-> k, v |-> v])

\* a string literal starting at the quote s[i]
ParseString(s, i) ==
    LET j == FindFirst(s, i + 1, {"\""})
    IN  IF i > Len(s) \/ s[i] # "\"" \/ j > Len(s) THEN PFail
        ELSE IF \E n \in (i + 1)..(j - 1) : s[n] = "\n" THEN PFail
        ELSE POk(JStr(SubSeq(s, i + 1, j - 1)), j + 1)

RECURSIVE ParseValue(_, _)
RECURSIVE ParseMembers(_, _, _)
RECURSIVE ParseElements(_, _, _)

ParseValue(s, i) ==
    IF i > Len(s) THEN PFail
    ELSE IF s[i] = "\"" THEN ParseString(s, i)
    ELSE IF s[i] \in NumberAtoms THEN POk(JScalar("num", s[i]), i + 1)
    ELSE IF s[i] \in {"true", "false"} THEN POk(JScalar("bool", s[i]), i + 1)
    ELSE IF s[i] = "null" THEN POk(JScalar("null", s[i]), i + 1)
    ELSE IF s[i] = "{" THEN
        LET j == SkipWs(s, i + 1)
        IN  IF j <= Len(s) /\ s[j] = "}" THEN POk(JObj(<<>>), j + 1)
            ELSE ParseMembers(s, j, <<>>)
    ELSE IF s[i] = "[" THEN
        LET j == SkipWs(s, i + 1)
        IN  IF j <= Len(s) /\ s[j] = "]" THEN POk(JArr(<<>>), j + 1)
            ELSE ParseElements(s, j, <<>>)
    ELSE PFail

\* "key" : value ( , "key" : value )* }
ParseMembers(s, i, acc) ==
    LET key   == ParseString(s, i)
        colon == SkipWs(s, key.next)
        val   == ParseValue(s, SkipWs(s, colon + 1))
        after == SkipWs(s, val.next)
        acc2  == DictPut(acc, key.val.s, val.val)
    IN  IF ~key.ok THEN PFail
        ELSE IF colon > Len(s) \/ s[colon] # ":" THEN PFail
        ELSE IF ~val.ok THEN PFail
        ELSE IF after > Len(s) THEN PFail
        ELSE IF s[after] = "}" THEN POk(JObj(acc2), after + 1)
        ELSE IF s[after] = "," THEN ParseMembers(s, SkipWs(s, after + 1), acc2)
        ELSE PFail

\* value ( , value )* ]
ParseElements(s, i, acc) ==
    LET val   == ParseValue(s, i)
        after == SkipWs(s, val.next)
        acc2  == Append(acc, [k |-> <<>>, v |-> val.val])
    IN  IF ~val.ok THEN PFail
        ELSE IF after > Len(s) THEN PFail
        ELSE IF s[after] = "]" THEN POk(JArr(acc2), after + 1)
        ELSE IF s[after] = "," THEN ParseElements(s, SkipWs(s, after + 1), acc2)
        ELSE PFail

\* json.loads(s): ok = FALSE stands for json.JSONDecodeError
json_loads(s) ==
    LET r == ParseValue(s, SkipWs(s, 1))
    IN  IF r.ok /\ SkipWs(s, r.next) = Len(s) + 1 THEN r ELSE PFail

(***************************************************************************)
(* Response parser (extraction.py)                                         *)
(***************************************************************************)
BASE_CONFIDENCE == 75
BOOSTED_CONFIDENCE == 85

CommonKeys ==
    {<<"first_name">>, <<"last_name">>, <<"date_of_birth">>,
     <<"document_number">>, <<"expiry_date">>, <<"document_type">>}

\* known field keys per document type
EXPECTED_KEYS ==
    [dt \in {<<"personalausweis">>, <<"reisepass">>, <<"fuehrerschein">>} |->
        IF dt = <<"personalausweis">>
        THEN CommonKeys \cup {<<"birth_place">>, <<"gender">>, <<"nationality">>,
                              <<"street">>, <<"house_number">>, <<"postal_code">>,
                              <<"city">>}
        ELSE IF dt = <<"reisepass">>
        THEN CommonKeys \cup {<<"birth_place">>, <<"gender">>, <<"nationality">>}
        ELSE CommonKeys \cup {<<"license_classes">>}]

\* variant: only the two markers are removed, the reasoning text stays
RECURSIVE StripThink_MarkersOnly(_)
StripThink_MarkersOnly(s) ==
    IF s = <<>> THEN <<>>
    ELSE IF Head(s) \in {"<think>", "</think>"}
    THEN StripThink_MarkersOnly(Tail(s))
    ELSE <<Head(s)>> \o StripThink_MarkersOnly(Tail(s))

\* variant: an unterminated reasoning block is removed up to the end
StripThink_OpenEnded(s) ==
    LET open == FindFirst(s, 1, {"<think>"})
    IN  IF open > Len(s) THEN s ELSE SubSeq(s, 1, open - 1)

\* re.sub(r"<think>.*?</think>", "", raw, flags=re.DOTALL)
RECURSIVE StripThink(_)
StripThink(s) ==
    LET open  == FindFirst(s, 1, {"<think>"})
        close == FindFirst(s, open + 1, {"</think>"})
    IN  IF open > Len(s) \/ close > Len(s) THEN s
        ELSE SubSeq(s, 1, open - 1) \o StripThink(SubSeq(s, close + 1, Len(s)))

NoMatch == [found |-> FALSE, text |-> <<>>]

\* the atom standing for three backticks
FENCE == "<fence>"

\* re.search(r"FENCE(?:json)?\s*\n?(.*?)\n?FENCE", cleaned, re.DOTALL), then
\* match.group(1).strip()
FenceSearch(s) ==
    LET open  == FindFirst(s, 1, {FENCE})
        body  == IF open + 1 <= Len(s) /\ s[open + 1] = "json"
                 THEN open + 2 ELSE open + 1
        close == FindFirst(s, body, {FENCE})
    IN  IF open > Len(s) \/ close > Len(s) THEN NoMatch
        ELSE [found |-> TRUE, text |-> Strip(SubSeq(s, body, close - 1))]

\* variant: the greedy pattern, from the first opening to the last closing brace
BraceSearch_Outermost(s, i) ==
    LET open   == FindFirst(s, i, {"{"})
        closes == {j \in 1..Len(s) : j > open /\ s[j] = "}"}
    IN  IF open > Len(s) \/ closes = {} THEN NoMatch
        ELSE [found |-> TRUE,
              text |-> SubSeq(s, open, CHOOSE j \in closes :
                                           \A k \in closes : k <= j)]

\* re.search(r"\{[^{}]*\}", cleaned, re.DOTALL) from position i on
RECURSIVE BraceSearch(_, _)
BraceSearch(s, i) ==
    LET open == FindFirst(s, i, {"{"})
        next == FindFirst(s, open + 1, {"{", "}"})
    IN  IF open > Len(s) \/ next > Len(s) THEN NoMatch
        ELSE IF s[next] = "}"
        THEN [found |-> TRUE, text |-> SubSeq(s, open, next)]
        ELSE BraceSearch(s, next)

NoDict == [some |-> FALSE, val |-> JObj(<<>>)]
SomeDict(v) == [some |-> TRUE, val |-> v]

\* json.loads gave a dict
LoadsDict(s) == json_loads(s).ok /\ json_loads(s).val.type = "obj"

\* variant: the text is trimmed only
Cleaned_TrimOnly(raw) == Strip(raw)

\* cleaned = re.sub(...).strip()
Cleaned(raw) == Strip(StripThink(raw))

\* variant: whatever json.loads gives is accepted
LoadsAsDict_AnyValue(text) ==
    IF json_loads(text).ok THEN SomeDict(json_loads(text).val) ELSE NoDict

\* json.loads(text) accepted when it gives a dict
LoadsAsDict(text) ==
    IF LoadsDict(text) THEN SomeDict(json_loads(text).val) ELSE NoDict

\* variant: the direct parse is left out
DirectStrategy_Off(cleaned) == NoDict

\* strategy 1: json.loads(cleaned)
DirectStrategy(cleaned) == LoadsAsDict(cleaned)

\* strategy 2: the content of a fenced code block
FenceStrategy(cleaned) ==
    LET fence == FenceSearch(cleaned)
    IN  IF fence.found THEN LoadsAsDict(fence.text) ELSE NoDict

\* variant: the brace search is left out
BraceStrategy_Off(cleaned) == NoDict

\* strategy 3: the first brace-delimited substring without inner braces
BraceStrategy(cleaned) ==
    LET brace == BraceSearch(cleaned, 1)
    IN  IF brace.found THEN LoadsAsDict(brace.text) ELSE NoDict

\* variant: the brace search comes before the fenced block
try_parse_json_BraceFirst(raw) ==
    LET cleaned == Cleaned(raw)
    IN  IF raw = <<>> THEN NoDict
        ELSE IF DirectStrategy(cleaned).some THEN DirectStrategy(cleaned)
        ELSE IF BraceStrategy(cleaned).some THEN BraceStrategy(cleaned)
        ELSE IF FenceStrategy(cleaned).some THEN FenceStrategy(cleaned)
        ELSE NoDict

\* try_parse_json(raw) for a str raw: some = FALSE stands for None
try_parse_json(raw) ==
    LET cleaned == Cleaned(raw)
    IN  IF raw = <<>> THEN NoDict
        ELSE IF DirectStrategy(cleaned).some THEN DirectStrategy(cleaned)
        ELSE IF FenceStrategy(cleaned).some THEN FenceStrategy(cleaned)
        ELSE IF BraceStrategy(cleaned).some THEN BraceStrategy(cleaned)
        ELSE NoDict

\* the json.loads calls try_parse_json makes, in the order it makes them:
\* which strategy, on what text, with what outcome
StrategiesTried(raw) ==
    LET cleaned == Cleaned(raw)
        fence   == FenceSearch(cleaned)
        brace   == BraceSearch(cleaned, 1)
        first   == <<[strategy |-> 1, text |-> cleaned,
                      result |-> DirectStrategy(cleaned)]>>
        second  == IF fence.found
                   THEN <<[strategy |-> 2, text |-> fence.text,
                           result |-> FenceStrategy(cleaned)]>>
                   ELSE <<>>
        third   == IF brace.found
                   THEN <<[strategy |-> 3, text |-> brace.text,
                           result |-> BraceStrategy(cleaned)]>>
                   ELSE <<>>
    IN  IF raw = <<>> THEN <<>>
        ELSE IF DirectStrategy(cleaned).some THEN first
        ELSE IF FenceStrategy(cleaned).some THEN first \o second
        ELSE first \o second \o third

ExtractionField(key, value, confidence, source) ==
    [key |-> key, value |-> value, confidence |-> confidence, source |-> source]

\* variant: every key gets the base confidence
FieldConfidence_Base(key, known) == BASE_CONFIDENCE

\* BOOSTED_CONFIDENCE if key in known else BASE_CONFIDENCE
FieldConfidence(key, known) ==
    IF key \in known THEN BOOSTED_CONFIDENCE ELSE BASE_CONFIDENCE

\* variant: a string value is kept even when nothing is left after trimming
SkipsValue_NonStringOnly(value) == value.type # "str"

\* not isinstance(value, str) or not value.strip()
SkipsValue(value) == value.type # "str" \/ Strip(value.s) = <<>>

\* the loop body of parse_json_from_response over parsed.items()
RECURSIVE BuildFields(_, _, _)
BuildFields(items, known, doc_type) ==
    IF items = <<>> THEN <<>>
    ELSE LET key   == Head(items).k
             value == Head(items).v
             rest  == BuildFields(Tail(items), known, doc_type)
         IN  IF SkipsValue(value) THEN rest
             ELSE <<ExtractionField(key, Strip(value.s),
                                    FieldConfidence(key, known), doc_type)>>
                  \o rest

parse_json_from_response(raw, doc_type) ==
    LET parsed == try_parse_json(raw)
        known  == IF doc_type \in DOMAIN EXPECTED_KEYS
                  THEN EXPECTED_KEYS[doc_type] ELSE {}
    IN  IF ~parsed.some THEN <<>>
        ELSE BuildFields(parsed.val.items, known, doc_type)

(***************************************************************************)
(* Prompts (prompts.py) and response model (models.py)                     *)
(***************************************************************************)
JSON_SUFFIX == "CRITICAL OUTPUT RULES: Return ONLY a single valid JSON object."

PROMPTS ==
    [dt \in {<<"personalausweis">>, <<"reisepass">>, <<"fuehrerschein">>} |->
        IF dt = <<"personalausweis">>
        THEN <<"You are analyzing a German national ID card (Personalausweis).",
               JSON_SUFFIX>>
        ELSE IF dt = <<"reisepass">>
        THEN <<"You are analyzing a German passport (Reisepass).", JSON_SUFFIX>>
        ELSE <<"You are analyzing a German driver's license (Fuehrerschein).",
               JSON_SUFFIX>>]

ExtractionResponse(document_type, fields, warnings, processing_time_ms) ==
    [document_type |-> document_type, fields |-> fields,
     warnings |-> warnings, processing_time_ms |-> processing_time_ms]

(***************************************************************************)
(* Preprocessing pipeline (preprocessing.py).  Image bytes are a record    *)
(* [fmt, w, h, ops]; a decoded pixel grid is [w, h, ops], ops being the    *)
(* transformations applied so far.  What the computer-vision library       *)
(* detects in the pixels is the record cv.                                 *)
(***************************************************************************)
TARGET_PORTRAIT == [w |-> 768, h |-> 1024]
TARGET_LANDSCAPE == [w |-> 1024, h |-> 768]
MinCropSide == 100

NotAnImage == [fmt |-> "text", w |-> 0, h |-> 0, ops |-> <<>>]
\* b"", zero bytes
EmptyBytes == [fmt |-> "empty", w |-> 0, h |-> 0, ops |-> <<>>]
JpegBytes(w, h, ops) == [fmt |-> "jpeg", w |-> w, h |-> h, ops |-> ops]

Abs(x) == IF x < 0 THEN -x ELSE x

\* _decode: cv2.imdecode gives None for bytes that are no image
_decode(image_bytes) ==
    IF image_bytes.fmt \in {"jpeg", "png"}
    THEN <<[w |-> image_bytes.w, h |-> image_bytes.h, ops |-> image_bytes.ops]>>
    ELSE <<>>

\* _perspective_transform: None (<<>>) when a target side is below 100
_perspective_transform(img, max_width, max_height) ==
    IF max_width < MinCropSide \/ max_height < MinCropSide THEN <<>>
    ELSE <<[w |-> max_width, h |-> max_height, ops |-> Append(img.ops, "crop")]>>

\* the loop of _crop_document over the qualifying quadrilaterals among the
\* five largest contours, quads[n] giving the target size of the n-th
RECURSIVE CropLoop(_, _)
CropLoop(img, quads) ==
    IF quads = <<>> THEN img
    ELSE LET dst == _perspective_transform(img, Head(quads).w, Head(quads).h)
         IN  IF dst # <<>> THEN dst[1] ELSE CropLoop(img, Tail(quads))

_crop_document(img, cv) ==
    IF cv.crop_fails THEN img ELSE CropLoop(img, cv.quads)

\* the angles list of _deskew: the detected lines within 45 degrees of the
\* horizontal, in detection order
RECURSIVE NearHorizontal(_)
NearHorizontal(angles) ==
    IF angles = <<>> THEN <<>>
    ELSE IF Abs(Head(angles)) < 45
    THEN <<Head(angles)>> \o NearHorizontal(Tail(angles))
    ELSE NearHorizontal(Tail(angles))

\* the k-th smallest entry of a non-empty sequence of numbers
KthSmallest(seq, k) ==
    CHOOSE x \in {seq[i] : i \in 1..Len(seq)} :
        /\ Cardinality({i \in 1..Len(seq) : seq[i] < x}) < k
        /\ Cardinality({i \in 1..Len(seq) : seq[i] <= x}) >= k

\* twice np.median(angles): the middle entry, or the mean of the two middle
\* entries, of the sorted angles
MedianTimes2(angles) ==
    LET n == Len(angles)
    IN  IF n % 2 = 1 THEN 2 * KthSmallest(angles, (n + 1) \div 2)
        ELSE KthSmallest(angles, n \div 2) + KthSmallest(angles, n \div 2 + 1)

\* _deskew: cv.angles are the angles, in degrees, of the lines HoughLinesP
\* detected (<<>> when it gave None)
_deskew(img, cv) ==
    IF cv.deskew_fails THEN img
    ELSE IF Len(cv.angles) < 3 THEN img
    ELSE LET angles == NearHorizontal(cv.angles)
         IN  IF angles = <<>> THEN img
             ELSE IF Abs(MedianTimes2(angles)) < 2 * 5 THEN img
             ELSE [img EXCEPT !.ops = Append(@, "deskew")]

_clahe_normalize(img, cv) ==
    IF cv.clahe_fails THEN img ELSE [img EXCEPT !.ops = Append(@, "clahe")]

\* variant: the portrait target whatever the orientation
ResizeTarget_AlwaysPortrait(img) == TARGET_PORTRAIT

\* target_w, target_h = TARGET_LANDSCAPE if is_landscape else TARGET_PORTRAIT
ResizeTarget(img) == IF img.w > img.h THEN TARGET_LANDSCAPE ELSE TARGET_PORTRAIT

\* variant: a tolerance of 20% instead of 10%
WithinTolerance_Wide(img, target) ==
    /\ 5 * Abs(img.w - target.w) < target.w
    /\ 5 * Abs(img.h - target.h) < target.h

\* abs(w - target_w) / target_w < 0.1 and abs(h - target_h) / target_h < 0.1
WithinTolerance(img, target) ==
    /\ 10 * Abs(img.w - target.w) < target.w
    /\ 10 * Abs(img.h - target.h) < target.h

\* variant: the image is never scaled
_resize_Never(img, cv) == img

_resize(img, cv) ==
    LET target == ResizeTarget(img)
    IN  IF cv.resize_fails THEN img
        ELSE IF WithinTolerance(img, target) THEN img
        ELSE [w |-> target.w, h |-> target.h, ops |-> Append(img.ops, "resize")]

\* variant: the encoder's output is returned even when encoding failed
_encode_NoFallback(img, fallback, cv) == JpegBytes(img.w, img.h, img.ops)

_encode(img, fallback, cv) ==
    IF cv.encode_ok THEN JpegBytes(img.w, img.h, img.ops) ELSE fallback

\* variant: nothing is returned for bytes that are no image
DecodeFailureResult_Empty(image_bytes) ==
    [fmt |-> "empty", w |-> 0, h |-> 0, ops |-> <<>>]

\* if img is None: return image_bytes
DecodeFailureResult(image_bytes) == image_bytes

\* preprocess(image_bytes)
preprocess(image_bytes, cv) ==
    LET img == _decode(image_bytes)
    IN  IF img = <<>> THEN DecodeFailureResult(image_bytes)
        ELSE _encode(
                _resize(_clahe_normalize(_deskew(_crop_document(img[1], cv), cv),
                                         cv), cv),
                image_bytes, cv)

(***************************************************************************)
(* GPU inference client (gpu_client.py)                                    *)
(***************************************************************************)
GPU_RETRY_ATTEMPTS == 3
GPU_RETRY_DELAY == 5
GPU_RETRY_BACKOFF == 2
MaxWaitSeconds == 120

\* the "text" entry of a response body: a JSON string or another JSON value
TextStr(s) == [type |-> "str", s |-> s]
TextInt == [type |-> "int", s |-> <<"123">>]
TextNull == [type |-> "null", s |-> <<>>]

\* a response body: not JSON at all, a JSON value that is no object, or an
\* object with optional detail, text and inference_time_ms entries
Body(shape, has_detail, detail, has_text, text, has_ms, ms) ==
    [shape |-> shape, has_detail |-> has_detail, detail |-> detail,
     has_text |-> has_text, text |-> text, has_ms |-> has_ms, ms |-> ms]
NotJsonBody == Body("not_json", FALSE, <<>>, FALSE, TextNull, FALSE, 0)
NonObjectBody == Body("non_object", FALSE, <<>>, FALSE, TextNull, FALSE, 0)
EmptyObjectBody == Body("object", FALSE, <<>>, FALSE, TextNull, FALSE, 0)
DetailBody(detail) == Body("object", TRUE, detail, FALSE, TextNull, FALSE, 0)
TextBody(text, ms) == Body("object", FALSE, <<>>, TRUE, text, TRUE, ms)
TextOnlyBody(text) == Body("object", FALSE, <<>>, TRUE, text, FALSE, 0)

\* what self._client.post gives: an httpx exception or a response
TransportFailure(kind, err) ==
    [kind |-> kind, err |-> err, status |-> 0, body |-> NotJsonBody]
HttpResponse(status, body) ==
    [kind |-> "response", err |-> <<>>, status |-> status, body |-> body]

\* what _send_infer and infer give: a returned pair or a raised exception
Return(text, ms) ==
    [tag |-> "return", exc |-> "none", msg |-> <<>>, text |-> text, ms |-> ms]
Raise(exc, msg) ==
    [tag |-> "raise", exc |-> exc, msg |-> msg, text |-> TextNull, ms |-> 0]

\* variant: every exception of the post counts as unavailable
TransportOutcome_AllUnavailable(reply) ==
    Raise("GPUServiceUnavailable",
          <<"Cannot connect to GPU service: ">> \o reply.err)

\* the except clauses around self._client.post
TransportOutcome(reply) ==
    IF reply.kind \in {"ConnectError", "ConnectTimeout"}
    THEN Raise("GPUServiceUnavailable",
               <<"Cannot connect to GPU service: ">> \o reply.err)
    ELSE IF reply.kind = "ReadTimeout"
    THEN Raise("GPUServiceUnavailable",
               <<"GPU service read timeout: ">> \o reply.err)
    ELSE Raise("GPUServiceError", <<"GPU service HTTP error: ">> \o reply.err)

\* resp.json().get("detail", default) followed by raise exc(detail)
RaiseDetail(exc, body, default) ==
    IF body.shape = "not_json" THEN Raise("JSONDecodeError", <<"Expecting value">>)
    ELSE IF body.shape # "object"
    THEN Raise("AttributeError", <<"object has no attribute 'get'">>)
    ELSE Raise(exc, IF body.has_detail THEN body.detail ELSE default)

\* data = resp.json(); return data["text"], data.get("inference_time_ms", 0)
ReturnPayload(body) ==
    IF body.shape = "not_json" THEN Raise("JSONDecodeError", <<"Expecting value">>)
    ELSE IF body.shape # "object"
    THEN Raise("TypeError", <<"indices must be integers">>)
    ELSE IF ~body.has_text THEN Raise("KeyError", <<"'text'">>)
    ELSE Return(body.text, IF body.has_ms THEN body.ms ELSE 0)

\* one inference request
_send_infer(reply) ==
    IF reply.kind # "response" THEN TransportOutcome(reply)
    ELSE IF reply.status = 503
    THEN RaiseDetail("GPUServiceUnavailable", reply.body, <<"Service unavailable">>)
    ELSE IF reply.status # 200
    THEN RaiseDetail("GPUServiceError", reply.body,
                     <<"HTTP ", ToString(reply.status)>>)
    ELSE ReturnPayload(reply.body)

\* variant: retry=retry_if_exception_type(Exception)
retry_if_exception_type_Any(outcome) == outcome.tag = "raise"

\* retry=retry_if_exception_type(GPUServiceUnavailable)
retry_if_exception_type(outcome) ==
    outcome.tag = "raise" /\ outcome.exc = "GPUServiceUnavailable"

\* variant: the stop is tested one attempt late
stop_after_attempt_OneLate(max_attempt_number, attempt_number) ==
    attempt_number > max_attempt_number

\* stop=stop_after_attempt(self._retry_attempts)
stop_after_attempt(max_attempt_number, attempt_number) ==
    attempt_number >= max_attempt_number

RECURSIVE Pow(_, _)
Pow(b, e) == IF e = 0 THEN 1 ELSE b * Pow(b, e - 1)

\* variant: the exponent is the attempt number itself
wait_exponential_FromAttempt(multiplier, exp_base, attempt_number) ==
    LET exp == multiplier * Pow(exp_base, attempt_number)
    IN  IF exp < 0 THEN 0 ELSE IF exp > MaxWaitSeconds THEN MaxWaitSeconds ELSE exp

\* wait=wait_exponential(multiplier, exp_base, max=120), in seconds
wait_exponential(multiplier, exp_base, attempt_number) ==
    LET exp == multiplier * Pow(exp_base, attempt_number - 1)
    IN  IF exp < 0 THEN 0 ELSE IF exp > MaxWaitSeconds THEN MaxWaitSeconds ELSE exp

\* base64.b64encode(preprocessed_bytes).decode()
b64encode(bytes) == [b64 |-> bytes]

(***************************************************************************)
(* Orchestrator (extraction.py): the warnings                              *)
(***************************************************************************)
NoPromptWarning(doc_type) ==
    <<"No prompt defined for document type: ">> \o doc_type
UnavailableWarning(msg) ==
    <<"GPU inference service ", "unavailable", ": ">> \o msg
\* variant: both except clauses build the same warning
ErrorWarning_AsUnavailable(msg) ==
    <<"GPU inference service ", "unavailable", ": ">> \o msg
ErrorWarning(msg) ==
    <<"GPU inference ", "failed", ": ">> \o msg
EmptyWarning ==
    <<"Could not extract any fields from the image. ",
      "The image may be unclear or the document type may not match.">>

\* variant: the elapsed time rounded up to the next millisecond
ElapsedMs_RoundUp(start_us, now_us) == (now_us - start_us + 999) \div 1000

\* int((time.monotonic() - start) * 1000), the clock counting microseconds
ElapsedMs(start_us, now_us) == (now_us - start_us) \div 1000

(***************************************************************************)
(* Bounds and input sets of the request model                              *)
(***************************************************************************)
MaxAttempts == 3
PreprocessMicros == 1500
SendMicros == 2500
ParseMicros == 700

\* retry_attempts values a client is constructed with, the default included
AttemptChoices == (1..MaxAttempts) \cup {GPU_RETRY_ATTEMPTS}
StartTimes == {0, 999}

DocTypes ==
    {<<"personalausweis">>, <<"fuehrerschein">>, <<"unknown_type">>, <<>>}

\* uploads are non-empty: the extract endpoint answers an empty one itself
Images == {NotAnImage, JpegBytes(200, 300, <<>>), JpegBytes(3000, 2000, <<>>)}

Cv(fails, quads, angles, encode_ok) ==
    [crop_fails |-> fails, deskew_fails |-> fails, clahe_fails |-> fails,
     resize_fails |-> fails, quads |-> quads, angles |-> angles,
     encode_ok |-> encode_ok]

CvOutcomes ==
    {Cv(FALSE, <<>>, <<>>, TRUE),
     Cv(FALSE, <<[w |-> 80, h |-> 250], [w |-> 180, h |-> 160]>>,
        <<7, 8, 60, 9>>, TRUE),
     Cv(TRUE, <<>>, <<>>, FALSE)}

Q == "\""
\* {"first_name": " Max ", "last_name": "", "count": 42}
TextOneField ==
    <<"{", Q, "first_name", Q, ":", " ", Q, " ", "Max", " ", Q, ",", " ",
      Q, "last_name", Q, ":", " ", Q, Q, ",", " ", Q, "count", Q, ":", " ",
      "42", "}">>
\* {"last_name": " "}
TextNoField == <<"{", Q, "last_name", Q, ":", " ", Q, " ", Q, "}">>
TextNoJson == <<"no json here">>

Details == {<<"Model loading">>, <<"Internal error">>}
Statuses == {200, 400, 500, 503}

ErrorBodies ==
    {NotJsonBody, NonObjectBody, EmptyObjectBody} \cup
    {DetailBody(d) : d \in Details}
SuccessBodies ==
    {TextBody(TextStr(TextOneField), 100), TextOnlyBody(TextStr(TextNoField)),
     TextBody(TextStr(TextNoJson), 100), TextBody(TextInt, 100),
     TextOnlyBody(TextNull)}

Replies ==
    {TransportFailure(k, <<"connection refused">>) :
        k \in {"ConnectError", "ConnectTimeout"}} \cup
    {TransportFailure(k, <<"timed out">>) :
        k \in {"ReadTimeout", "WriteTimeout", "PoolTimeout"}}
    \cup {TransportFailure("RemoteProtocolError", <<"server disconnected">>)}
    \cup {HttpResponse(st, b) : st \in Statuses, b \in ErrorBodies}
    \cup {HttpResponse(200, b) : b \in SuccessBodies}

(***************************************************************************)
(* One request through extract_from_image on a constructed GPUClient       *)
(***************************************************************************)
VARIABLES
    retry_attempts,  \* GPUClient._retry_attempts
    retry_delay,     \* GPUClient._retry_delay, in seconds
    retry_backoff,   \* GPUClient._retry_backoff
    pc,              \* position of the request: idle, preprocess, infer,
                     \* send, sleep, done
    now,             \* time.monotonic(), in microseconds
    request,         \* <<[image_bytes, doc_type]>> once extract_from_image runs
    start,           \* local start of extract_from_image
    prompt,          \* local prompt: <<text>>, or <<>> for None
    preprocessed,    \* <<bytes>> once preprocess has returned
    payload,         \* <<[image_b64, prompt]>> once infer was called
    attempt_number,  \* tenacity's retry_state.attempt_number
    attempts,        \* per request sent: the reply and the outcome of _send_infer
    sleeps,          \* the backoff pauses taken, in seconds
    trace,           \* the pipeline steps in the order they ran
    infer_result,    \* <<outcome>> once infer returned or raised
    response,        \* <<ExtractionResponse>> once extract_from_image returned
    escaped,         \* the exception that left extract_from_image, or "none"
    call_pc,         \* per concurrent infer call: idle, send, sleep, done
    call_attempt,    \* per retry state: its attempt_number
    call_log,        \* per call: its attempts, each with number and outcome
    call_sleeps,     \* per call: the pauses it took, in seconds
    health_log,      \* the health probes made: the answer and what health gave
    p_pc,            \* position inside preprocess: idle, decode, crop, deskew,
                     \* clahe, resize, encode, done
    p_caller,        \* who called preprocess
    p_input,         \* <<image_bytes>> once preprocess was called
    p_img,           \* <<img>>, the local img of preprocess
    p_log,           \* the stages run: stage, its input, its output, what the
                     \* library saw
    p_result,        \* <<bytes>> once preprocess returned
    p_raised,        \* the exception that left preprocess, or "none"
    t_pc,            \* position of a parser call: idle, called, parsed, done
    t_input,         \* <<input>>: the raw text and what it was built from
    t_doc_type,      \* the doc_type argument of parse_json_from_response
    t_tried,         \* the parse attempts try_parse_json made, in order
    t_parsed,        \* <<result>> of try_parse_json once it returned
    t_fields,        \* <<fields>> once parse_json_from_response returned
    g_loader,        \* GPU service, loader thread: idle, init, engine_set,
                     \* done, failed
    g_engine,        \* engine._engine is not None
    g_model_ready,   \* main._model_ready
    g_handler,       \* <<request>> while /infer is past its readiness test
    g_log,           \* the /infer requests answered, with their answers
    e_pc,            \* brain service: init, serving, failed, closed
    e_url,           \* settings.GPU_SERVICE_URL
    e_client,        \* main._gpu_client is not None
    e_available,     \* main._gpu_available
    e_handler,       \* <<request>> while extract is past its first test
    e_log            \* the requests answered, with what the handler did

clientVars == <<retry_attempts, retry_delay, retry_backoff>>
requestVars == <<pc, now, request, start, prompt, preprocessed, payload,
                 attempt_number, attempts, sleeps, trace, infer_result,
                 response, escaped>>
callVars == <<call_pc, call_attempt, call_log, call_sleeps>>
healthVars == <<health_log>>
pipelineVars == <<p_pc, p_caller, p_input, p_img, p_log, p_result, p_raised>>

parserVars == <<t_pc, t_input, t_doc_type, t_tried, t_parsed, t_fields>>
gpuVars == <<g_loader, g_engine, g_model_ready, g_handler, g_log>>
endpointVars == <<e_pc, e_url, e_client, e_available, e_handler, e_log>>

vars == <<clientVars, requestVars, callVars, healthVars, pipelineVars,
          parserVars, gpuVars, endpointVars>>

\* what an action of one part of the model leaves alone
OutsideRequest == <<retry_delay, retry_backoff, callVars, healthVars,
                    pipelineVars, parserVars, gpuVars, endpointVars>>
OutsideCalls == <<clientVars, requestVars, healthVars, pipelineVars,
                  parserVars, gpuVars, endpointVars>>
OutsideHealth == <<clientVars, requestVars, callVars, pipelineVars,
                   parserVars, gpuVars, endpointVars>>
OutsidePipeline == <<clientVars, requestVars, callVars, healthVars,
                     parserVars, gpuVars, endpointVars>>
OutsideParser == <<clientVars, requestVars, callVars, healthVars,
                   pipelineVars, gpuVars, endpointVars>>
OutsideGpu == <<clientVars, requestVars, callVars, healthVars, pipelineVars,
                parserVars, endpointVars>>
OutsideEndpoint == <<clientVars, requestVars, callVars, healthVars,
                     pipelineVars, parserVars, gpuVars>>

\* the concurrent infer calls of the concurrency model
Calls == {1, 2}

\* GPUClient() built from the settings
DefaultBackoff ==
    /\ retry_delay = GPU_RETRY_DELAY
    /\ retry_backoff = GPU_RETRY_BACKOFF

\* no request has entered extract_from_image
RequestIdle ==
    /\ pc = "idle"
    /\ request = <<>>
    /\ start = 0
    /\ prompt = <<>>
    /\ preprocessed = <<>>
    /\ payload = <<>>
    /\ attempt_number = 0
    /\ attempts = <<>>
    /\ sleeps = <<>>
    /\ trace = <<>>
    /\ infer_result = <<>>
    /\ response = <<>>
    /\ escaped = "none"

\* no infer call has been made on the client
CallsIdle ==
    /\ call_pc = [c \in Calls |-> "idle"]
    /\ call_attempt = [c \in Calls |-> 0]
    /\ call_log = [c \in Calls |-> <<>>]
    /\ call_sleeps = [c \in Calls |-> <<>>]

\* no health probe has been made
HealthIdle == health_log = <<>>

\* preprocess has not been called
PipelineIdle ==
    /\ p_pc = "idle"
    /\ p_caller = "none"
    /\ p_input = <<>>
    /\ p_img = <<>>
    /\ p_log = <<>>
    /\ p_result = <<>>
    /\ p_raised = "none"

\* the parser has not been called
ParserIdle ==
    /\ t_pc = "idle"
    /\ t_input = <<>>
    /\ t_doc_type = <<>>
    /\ t_tried = <<>>
    /\ t_parsed = <<>>
    /\ t_fields = <<>>

\* the GPU service process has not started
GpuIdle ==
    /\ g_loader = "idle"
    /\ g_engine = FALSE
    /\ g_model_ready = FALSE
    /\ g_handler = <<>>
    /\ g_log = <<>>

\* the brain service has not started
EndpointIdle ==
    /\ e_pc = "init"
    /\ e_url = <<>>
    /\ e_client = FALSE
    /\ e_available = FALSE
    /\ e_handler = <<>>
    /\ e_log = <<>>

Init ==
    /\ retry_attempts \in AttemptChoices
    /\ DefaultBackoff
    /\ now \in StartTimes
    /\ RequestIdle
    /\ CallsIdle
    /\ HealthIdle
    /\ PipelineIdle
    /\ ParserIdle
    /\ GpuIdle
    /\ EndpointIdle

\* variant: a lookup that falls back to a default prompt
PromptsGet_Default(dt) ==
    IF dt \in DOMAIN PROMPTS THEN <<PROMPTS[dt]>>
    ELSE <<PROMPTS[<<"personalausweis">>]>>

\* PROMPTS.get(doc_type): <<>> stands for None
PromptsGet(dt) == IF dt \in DOMAIN PROMPTS THEN <<PROMPTS[dt]>> ELSE <<>>

\* extract_from_image up to the prompt lookup
ExtractStart(image_bytes, dt) ==
    /\ pc = "idle"
    /\ request' = <<[image_bytes |-> image_bytes, doc_type |-> dt]>>
    /\ start' = now
    /\ prompt' = PromptsGet(dt)
    /\ IF PromptsGet(dt) = <<>>
       THEN /\ response' = <<ExtractionResponse(dt, <<>>, <<NoPromptWarning(dt)>>, 0)>>
            /\ pc' = "done"
       ELSE /\ response' = response
            /\ pc' = "preprocess"
    /\ UNCHANGED <<retry_attempts, now, preprocessed, payload, attempt_number,
                   attempts, sleeps, trace, infer_result, escaped>>
    /\ UNCHANGED OutsideRequest

\* preprocessed = preprocess(image_bytes)
Preprocess(cv) ==
    /\ pc = "preprocess"
    /\ trace' = Append(trace, "preprocess")
    /\ now' = now + PreprocessMicros
    /\ preprocessed' = <<preprocess(request[1].image_bytes, cv)>>
    /\ pc' = "infer"
    /\ UNCHANGED <<retry_attempts, prompt, request, start, payload,
                   attempt_number, attempts, sleeps, infer_result, response,
                   escaped>>
    /\ UNCHANGED OutsideRequest

\* variant: the raw upload is handed on instead of the preprocessed bytes
InferArguments_RawBytes(image_bytes, preprocessed_bytes, prompt_text) ==
    [bytes |-> image_bytes, prompt |-> prompt_text]

\* the arguments extract_from_image hands to gpu_client.infer
InferArguments(image_bytes, preprocessed_bytes, prompt_text) ==
    [bytes |-> preprocessed_bytes, prompt |-> prompt_text]

\* gpu_client.infer(preprocessed, prompt) up to the first attempt
InferCall ==
    /\ pc = "infer"
    /\ LET args == InferArguments(request[1].image_bytes, preprocessed[1],
                                  prompt[1])
       IN  payload' = <<[image_b64 |-> b64encode(args.bytes),
                         prompt |-> args.prompt]>>
    /\ attempt_number' = 1
    /\ trace' = Append(trace, "infer")
    /\ pc' = "send"
    /\ UNCHANGED <<retry_attempts, prompt, now, request, start, preprocessed,
                   attempts, sleeps, infer_result, response, escaped>>
    /\ UNCHANGED OutsideRequest

\* try_parse_json raises TypeError in re.sub for a truthy raw that is no str
ParserRaises(text) == text.type = "int"

\* parse_json_from_response(raw_text, doc_type) on what infer returned
ParsedFields(text, doc_type) ==
    IF text.type = "str" THEN parse_json_from_response(text.s, doc_type)
    ELSE <<>>

\* variant: no warning for an empty field list
ParseWarnings_Never(fields) == <<>>

\* the warnings of the response built after parsing
ParseWarnings(fields) == IF fields = <<>> THEN <<EmptyWarning>> ELSE <<>>

\* extract_from_image from the point where infer returned or raised:
\* <<response>> or <<>> when the exception is not caught
ResponseAfterInfer(doc_type, outcome, elapsed_ms) ==
    IF outcome.tag = "raise" /\ outcome.exc = "GPUServiceUnavailable"
    THEN <<ExtractionResponse(doc_type, <<>>,
                              <<UnavailableWarning(outcome.msg)>>, elapsed_ms)>>
    ELSE IF outcome.tag = "raise" /\ outcome.exc = "GPUServiceError"
    THEN <<ExtractionResponse(doc_type, <<>>, <<ErrorWarning(outcome.msg)>>,
                              elapsed_ms)>>
    ELSE IF outcome.tag = "raise" \/ ParserRaises(outcome.text) THEN <<>>
    ELSE LET fields == ParsedFields(outcome.text, doc_type)
         IN  <<ExtractionResponse(doc_type, fields, ParseWarnings(fields),
                                  elapsed_ms)>>

\* the exception leaving extract_from_image, "none" when it returns
EscapedAfterInfer(outcome) ==
    IF outcome.tag = "raise"
    THEN IF outcome.exc \in {"GPUServiceUnavailable", "GPUServiceError"}
         THEN "none" ELSE outcome.exc
    ELSE IF ParserRaises(outcome.text) THEN "TypeError" ELSE "none"

\* one attempt of _do_infer under tenacity: _send_infer, then either the
\* decision to retry or the end of infer and the rest of extract_from_image
SendInfer(reply) ==
    /\ pc = "send"
    /\ LET outcome == _send_infer(reply)
           retry   == /\ retry_if_exception_type(outcome)
                      /\ ~stop_after_attempt(retry_attempts, attempt_number)
           parses  == outcome.tag = "return"
           end     == now + SendMicros + (IF parses THEN ParseMicros ELSE 0)
       IN  /\ attempts' = Append(attempts, [reply |-> reply, outcome |-> outcome])
           /\ now' = end
           /\ IF retry
              THEN /\ pc' = "sleep"
                   /\ trace' = Append(trace, "send")
                   /\ UNCHANGED <<infer_result, response, escaped>>
              ELSE /\ pc' = "done"
                   /\ infer_result' = <<outcome>>
                   /\ trace' = trace \o (IF parses THEN <<"send", "parse">>
                                         ELSE <<"send">>)
                   /\ response' = ResponseAfterInfer(request[1].doc_type, outcome,
                                                     ElapsedMs(start, end))
                   /\ escaped' = EscapedAfterInfer(outcome)
    /\ UNCHANGED <<retry_attempts, prompt, request, start, preprocessed,
                   payload, attempt_number, sleeps>>
    /\ UNCHANGED OutsideRequest

\* tenacity's pause between two attempts (before_sleep logs, then sleep)
Sleep ==
    /\ pc = "sleep"
    /\ LET wait == wait_exponential(retry_delay, retry_backoff,
                                    attempt_number)
       IN  /\ sleeps' = Append(sleeps, wait)
           /\ now' = now + wait * 1000000
    /\ attempt_number' = attempt_number + 1
    /\ trace' = Append(trace, "sleep")
    /\ pc' = "send"
    /\ UNCHANGED <<retry_attempts, prompt, request, start, preprocessed,
                   payload, attempts, infer_result, response, escaped>>
    /\ UNCHANGED OutsideRequest

Next ==
    \/ \E image_bytes \in Images, dt \in DocTypes : ExtractStart(image_bytes, dt)
    \/ \E cv \in CvOutcomes : Preprocess(cv)
    \/ InferCall
    \/ \E reply \in Replies : SendInfer(reply)
    \/ Sleep

Spec == Init /\ [][Next]_vars

(***************************************************************************)
(* Concurrent infer calls on one GPUClient (gpu_client.py).  The client    *)
(* holds the settings and the connection pool; everything else of a call   *)
(* is local to _infer_with_retry.                                          *)
(***************************************************************************)
MaxBackoffAttempts == 7

ConcReplies ==
    {TransportFailure("ConnectError", <<"connection refused">>),
     HttpResponse(503, DetailBody(<<"Model loading">>)),
     HttpResponse(503, NotJsonBody),
     HttpResponse(500, DetailBody(<<"Internal error">>)),
     HttpResponse(200, TextBody(TextStr(TextNoField), 100))}

BackoffReplies ==
    {HttpResponse(503, DetailBody(<<"Model loading">>)),
     HttpResponse(200, TextBody(TextStr(TextNoField), 100))}

Delays == {0, 1, 5, 50, 200}
Backoffs == {1, 2, 3}

\* variant: one retry state kept on the client for all calls
RetryStateOf_Shared(c) == 1

\* the retry state a call works on: _do_infer is decorated anew inside every
\* _infer_with_retry, so call c has the retry state c
RetryStateOf(c) == c

\* infer(preprocessed_bytes, prompt) by call c, up to the first attempt
CallInfer(c) ==
    /\ call_pc[c] = "idle"
    /\ call_attempt' = [call_attempt EXCEPT ![RetryStateOf(c)] = 1]
    /\ call_pc' = [call_pc EXCEPT ![c] = "send"]
    /\ UNCHANGED <<call_log, call_sleeps>>
    /\ UNCHANGED OutsideCalls

\* one attempt of call c: _send_infer, then tenacity's decision
CallSend(c, reply) ==
    /\ call_pc[c] = "send"
    /\ LET outcome == _send_infer(reply)
           n       == call_attempt[RetryStateOf(c)]
           retry   == /\ retry_if_exception_type(outcome)
                      /\ ~stop_after_attempt(retry_attempts, n)
       IN  /\ call_log' = [call_log EXCEPT ![c] =
                   Append(@, [attempt_number |-> n, outcome |-> outcome])]
           /\ call_pc' = [call_pc EXCEPT ![c] = IF retry THEN "sleep" ELSE "done"]
    /\ UNCHANGED <<call_attempt, call_sleeps>>
    /\ UNCHANGED OutsideCalls

\* the pause of call c before its next attempt
CallSleep(c) ==
    /\ call_pc[c] = "sleep"
    /\ call_sleeps' = [call_sleeps EXCEPT ![c] =
           Append(@, wait_exponential(retry_delay, retry_backoff,
                                      call_attempt[RetryStateOf(c)]))]
    /\ call_attempt' = [call_attempt EXCEPT ![RetryStateOf(c)] = @ + 1]
    /\ call_pc' = [call_pc EXCEPT ![c] = "send"]
    /\ UNCHANGED call_log
    /\ UNCHANGED OutsideCalls

InitConc ==
    /\ retry_attempts \in AttemptChoices
    /\ DefaultBackoff
    /\ now = 0
    /\ RequestIdle
    /\ CallsIdle
    /\ HealthIdle
    /\ PipelineIdle
    /\ ParserIdle
    /\ GpuIdle
    /\ EndpointIdle

NextConc ==
    \/ \E c \in Calls : CallInfer(c)
    \/ \E c \in Calls, reply \in ConcReplies : CallSend(c, reply)
    \/ \E c \in Calls : CallSleep(c)

SpecConc == InitConc /\ [][NextConc]_vars

\* one infer call on a client built with any attempts, delay and backoff
InitBackoff ==
    /\ retry_attempts \in 1..MaxBackoffAttempts
    /\ retry_delay \in Delays
    /\ retry_backoff \in Backoffs
    /\ now = 0
    /\ RequestIdle
    /\ CallsIdle
    /\ HealthIdle
    /\ PipelineIdle
    /\ ParserIdle
    /\ GpuIdle
    /\ EndpointIdle

NextBackoff ==
    \/ CallInfer(1)
    \/ \E reply \in BackoffReplies : CallSend(1, reply)
    \/ CallSleep(1)

SpecBackoff == InitBackoff /\ [][NextBackoff]_vars

(***************************************************************************)
(* Health probes (GPUClient.health)                                        *)
(***************************************************************************)
MaxProbes == 3

\* the health maps the GPU service answers with
BackendHealth(status, ready) ==
    [status |-> status, model_id |-> "model", ready |-> ready]

\* the body of a health answer: JSON holding a value, or no JSON at all
HealthJson(value) == [shape |-> "json", value |-> value]
HealthNotJson == [shape |-> "not_json", value |-> BackendHealth("", FALSE)]

HealthProbes ==
    {TransportFailure("ConnectError", <<"connection refused">>),
     TransportFailure("ReadTimeout", <<"timed out">>),
     HttpResponse(200, HealthJson(BackendHealth("healthy", TRUE))),
     HttpResponse(503, HealthJson(BackendHealth("loading", FALSE))),
     HttpResponse(502, HealthNotJson),
     HttpResponse(200, HealthNotJson)}

\* {"status": "unreachable", "error": str(e)}
Unreachable(error) == [status |-> "unreachable", error |-> error]

\* variant: only failures of the transport are caught
health_TransportOnly(probe) ==
    IF probe.kind # "response"
    THEN [tag |-> "return", value |-> Unreachable(probe.err)]
    ELSE IF probe.body.shape = "not_json"
    THEN [tag |-> "raise", value |-> Unreachable(<<"Expecting value">>)]
    ELSE [tag |-> "return", value |-> probe.body.value]

\* health(): the get and resp.json() inside try, except Exception around it
health(probe) ==
    IF probe.kind # "response"
    THEN [tag |-> "return", value |-> Unreachable(probe.err)]
    ELSE IF probe.body.shape = "not_json"
    THEN [tag |-> "return", value |-> Unreachable(<<"Expecting value">>)]
    ELSE [tag |-> "return", value |-> probe.body.value]

\* one call of health, answered by probe
HealthCheck(probe) ==
    /\ Len(health_log) < MaxProbes
    /\ health_log' = Append(health_log, [probe |-> probe, result |-> health(probe)])
    /\ UNCHANGED OutsideHealth

InitHealth ==
    /\ retry_attempts = GPU_RETRY_ATTEMPTS
    /\ DefaultBackoff
    /\ now = 0
    /\ RequestIdle
    /\ CallsIdle
    /\ HealthIdle
    /\ PipelineIdle
    /\ ParserIdle
    /\ GpuIdle
    /\ EndpointIdle

NextHealth == \E probe \in HealthProbes : HealthCheck(probe)

SpecHealth == InitHealth /\ [][NextHealth]_vars

(***************************************************************************)
(* preprocess, stage by stage (preprocessing.py).  Every stage draws what  *)
(* the library sees or whether it raises; p_log keeps what each stage was  *)
(* given and what it handed on.                                            *)
(***************************************************************************)
PipelineImages ==
    {EmptyBytes, NotAnImage, JpegBytes(400, 400, <<>>),
     JpegBytes(3000, 2000, <<>>), JpegBytes(1100, 800, <<>>),
     JpegBytes(844, 1126, <<>>), JpegBytes(845, 1024, <<>>),
     JpegBytes(1126, 844, <<>>), JpegBytes(1200, 900, <<>>)}

\* preprocess is called by extract_from_image with the upload as it came,
\* or by any other caller
Callers == {"extract_from_image", "other"}

\* qualifying quadrilaterals among the five largest contours, largest
\* first, each with the target size _perspective_transform computes
CropObservations ==
    {[crop_fails |-> TRUE, quads |-> <<>>],
     [crop_fails |-> FALSE, quads |-> <<>>],
     [crop_fails |-> FALSE, quads |-> <<[w |-> 300, h |-> 200]>>],
     [crop_fails |-> FALSE, quads |-> <<[w |-> 100, h |-> 100]>>],
     [crop_fails |-> FALSE, quads |-> <<[w |-> 90, h |-> 390]>>],
     [crop_fails |-> FALSE,
      quads |-> <<[w |-> 90, h |-> 390], [w |-> 180, h |-> 180]>>]}

\* angles, in degrees, of the lines HoughLinesP detects
DeskewObservations ==
    {[deskew_fails |-> TRUE, angles |-> <<7, 8, 9>>],
     [deskew_fails |-> FALSE, angles |-> <<>>],
     [deskew_fails |-> FALSE, angles |-> <<7, 8>>],
     [deskew_fails |-> FALSE, angles |-> <<2, 3, 4>>],
     [deskew_fails |-> FALSE, angles |-> <<7, 8, 9>>],
     [deskew_fails |-> FALSE, angles |-> <<5, 5, 5>>],
     [deskew_fails |-> FALSE, angles |-> <<6, 4, -20, 5>>],
     [deskew_fails |-> FALSE, angles |-> <<60, 70, 80>>],
     [deskew_fails |-> FALSE, angles |-> <<10, 80, 85>>]}

StageFailures == {[clahe_fails |-> f, resize_fails |-> f] : f \in BOOLEAN}
EncodeObservations == {[encode_ok |-> b] : b \in BOOLEAN}

\* cv2.imdecode given an empty buffer raises cv2.error in OpenCV 4 and
\* gives None in older builds; any other buffer gives an image or None
DecodeOutcomes(image_bytes) ==
    IF image_bytes.fmt = "empty" THEN {"raises", "returns"} ELSE {"returns"}

StageEntry(stage, input, output, failed, cv) ==
    [stage |-> stage, input |-> input, output |-> output, failed |-> failed,
     cv |-> cv]

\* preprocess(image_bytes) is entered
PreprocessCall(caller, image_bytes) ==
    /\ p_pc = "idle"
    /\ p_caller' = caller
    /\ p_input' = <<image_bytes>>
    /\ p_pc' = "decode"
    /\ UNCHANGED <<p_img, p_log, p_result, p_raised>>
    /\ UNCHANGED OutsidePipeline

\* img = _decode(image_bytes) and the test for None
StageDecode(outcome) ==
    /\ p_pc = "decode"
    /\ outcome \in DecodeOutcomes(p_input[1])
    /\ LET img == IF outcome = "raises" THEN <<>> ELSE _decode(p_input[1])
       IN  /\ p_log' = Append(p_log, StageEntry("decode", p_input[1], img,
                                                 outcome = "raises", outcome))
           /\ p_img' = img
           /\ p_raised' = IF outcome = "raises" THEN "cv2.error" ELSE "none"
           /\ p_result' = IF outcome = "returns" /\ img = <<>>
                           THEN <<DecodeFailureResult(p_input[1])>> ELSE <<>>
           /\ p_pc' = IF img = <<>> THEN "done" ELSE "crop"
    /\ UNCHANGED <<p_caller, p_input>>
    /\ UNCHANGED OutsidePipeline

\* img = _crop_document(img)
StageCrop(cv) ==
    /\ p_pc = "crop"
    /\ LET output == _crop_document(p_img[1], cv)
       IN  /\ p_log' = Append(p_log, StageEntry("crop", p_img[1], output,
                                                 cv.crop_fails, cv))
           /\ p_img' = <<output>>
    /\ p_pc' = "deskew"
    /\ UNCHANGED <<p_caller, p_input, p_result, p_raised>>
    /\ UNCHANGED OutsidePipeline

\* img = _deskew(img)
StageDeskew(cv) ==
    /\ p_pc = "deskew"
    /\ LET output == _deskew(p_img[1], cv)
       IN  /\ p_log' = Append(p_log, StageEntry("deskew", p_img[1], output,
                                                 cv.deskew_fails, cv))
           /\ p_img' = <<output>>
    /\ p_pc' = "clahe"
    /\ UNCHANGED <<p_caller, p_input, p_result, p_raised>>
    /\ UNCHANGED OutsidePipeline

\* img = _clahe_normalize(img)
StageClahe(cv) ==
    /\ p_pc = "clahe"
    /\ LET output == _clahe_normalize(p_img[1], cv)
       IN  /\ p_log' = Append(p_log, StageEntry("clahe", p_img[1], output,
                                                 cv.clahe_fails, cv))
           /\ p_img' = <<output>>
    /\ p_pc' = "resize"
    /\ UNCHANGED <<p_caller, p_input, p_result, p_raised>>
    /\ UNCHANGED OutsidePipeline

\* img = _resize(img)
StageResize(cv) ==
    /\ p_pc = "resize"
    /\ LET output == _resize(p_img[1], cv)
       IN  /\ p_log' = Append(p_log, StageEntry("resize", p_img[1], output,
                                                 cv.resize_fails, cv))
           /\ p_img' = <<output>>
    /\ p_pc' = "encode"
    /\ UNCHANGED <<p_caller, p_input, p_result, p_raised>>
    /\ UNCHANGED OutsidePipeline

\* return _encode(img, fallback=image_bytes)
StageEncode(cv) ==
    /\ p_pc = "encode"
    /\ LET bytes == _encode(p_img[1], p_input[1], cv)
       IN  /\ p_log' = Append(p_log, StageEntry("encode", p_img[1], bytes,
                                                 ~cv.encode_ok, cv))
           /\ p_result' = <<bytes>>
    /\ p_pc' = "done"
    /\ UNCHANGED <<p_caller, p_input, p_img, p_raised>>
    /\ UNCHANGED OutsidePipeline

InitPipeline ==
    /\ retry_attempts = GPU_RETRY_ATTEMPTS
    /\ DefaultBackoff
    /\ now = 0
    /\ RequestIdle
    /\ CallsIdle
    /\ HealthIdle
    /\ PipelineIdle
    /\ ParserIdle
    /\ GpuIdle
    /\ EndpointIdle

NextPipeline ==
    \/ \E caller \in Callers, image_bytes \in PipelineImages :
           PreprocessCall(caller, image_bytes)
    \/ \E outcome \in {"raises", "returns"} : StageDecode(outcome)
    \/ \E cv \in CropObservations : StageCrop(cv)
    \/ \E cv \in DeskewObservations : StageDeskew(cv)
    \/ \E cv \in StageFailures : StageClahe(cv)
    \/ \E cv \in StageFailures : StageResize(cv)
    \/ \E cv \in EncodeObservations : StageEncode(cv)

SpecPipeline == InitPipeline /\ [][NextPipeline]_vars

(***************************************************************************)
(* The response parser on its own (extraction.py): parse_json_from_response *)
(* applied to model texts of every shape the parser distinguishes.  An     *)
(* input keeps the value its text was written from.                        *)
(***************************************************************************)
Item(k, v) == [k |-> <<k>>, v |-> v]
Str(x) == JStr(<<x>>)

\* the text of a JSON value, written the way json.dumps writes it
RECURSIVE Render(_)
RECURSIVE RenderItems(_, _)
Render(v) ==
    IF v.type = "str" THEN <<Q>> \o v.s \o <<Q>>
    ELSE IF v.type = "obj" THEN <<"{">> \o RenderItems(v.items, TRUE) \o <<"}">>
    ELSE IF v.type = "arr" THEN <<"[">> \o RenderItems(v.items, FALSE) \o <<"]">>
    ELSE v.s

RenderItems(items, keyed) ==
    IF items = <<>> THEN <<>>
    ELSE (IF keyed THEN <<Q>> \o Head(items).k \o <<Q, ":", " ">> ELSE <<>>)
         \o Render(Head(items).v)
         \o (IF Len(items) > 1 THEN <<",", " ">> ELSE <<>>)
         \o RenderItems(Tail(items), keyed)

ObjNames == JObj(<<Item("first_name", Str("Max")),
                   Item("last_name", Str("Mustermann"))>>)
ObjKeyValue == JObj(<<Item("key", Str("value"))>>)
ObjMixed ==
    JObj(<<Item("first_name", JStr(<<" ", "Max", " ">>)),
           Item("last_name", JStr(<<>>)),
           Item("empty_field", JStr(<<" ", " ", " ">>)),
           Item("count", JScalar("num", "42")),
           Item("valid", JScalar("bool", "true")),
           Item("middle_name", JScalar("null", "null")),
           Item("city", Str("Berlin"))>>)
ObjNested ==
    JObj(<<Item("person", JObj(<<Item("first_name", Str("Max"))>>)),
           Item("city", Str("Berlin"))>>)
ObjWithArray ==
    JObj(<<Item("license_classes", JArr(<<[k |-> <<>>, v |-> Str("B")]>>)),
           Item("first_name", Str("Anna"))>>)
ObjEmpty == JObj(<<>>)
ObjByType ==
    JObj(<<Item("license_classes", Str("B")), Item("street", Str("Hauptstr")),
           Item("note", Str("x")), Item("first_name", Str("Anna"))>>)

Objects ==
    {ObjNames, ObjKeyValue, ObjMixed, ObjNested, ObjWithArray, ObjEmpty,
     ObjByType}

Elements(vals) == [n \in 1..Len(vals) |-> [k |-> <<>>, v |-> vals[n]]]

Arrays ==
    {JArr(<<>>),
     JArr(Elements(<<JScalar("num", "1"), JScalar("num", "2"),
                     JScalar("num", "3")>>)),
     JArr(Elements(<<Str("a")>>)),
     JArr(Elements(<<JArr(Elements(<<JScalar("num", "1")>>))>>)),
     JArr(Elements(<<ObjKeyValue>>)),
     JArr(Elements(<<JScalar("num", "1"), ObjNames>>))}

Scalars == {JScalar("num", "42"), JScalar("null", "null"), Str("first_name")}

Paddings == {<<>>, <<" ", "\n", " ">>}

ObjWrong == JObj(<<Item("wrong", Str("data"))>>)

\* what a reasoning block holds: plain text, text with an object in it, a
\* fenced object
ThinkContents ==
    {<<"\n", "Let me analyze this document...", "\n">>,
     <<"\n", "The document shows ">> \o Render(ObjWrong)
        \o <<" but let me extract properly.", "\n">>,
     <<FENCE, "json", "\n">> \o Render(ObjWrong) \o <<"\n", FENCE>>}

Think(content) == <<"<think>">> \o content \o <<"</think>">>

Preamble == <<"Here is the extracted data:", "\n", "\n">>

ParserInput(shape, value, text) ==
    [shape |-> shape, value |-> value, text |-> text]

ParserInputs ==
    {ParserInput("object", o, pad \o Render(o) \o pad) :
        o \in Objects, pad \in Paddings}
    \cup {ParserInput("think_object", o, Think(c) \o <<"\n">> \o Render(o)) :
            o \in Objects, c \in ThinkContents}
    \cup {ParserInput("think_only", ObjEmpty, Think(c) \o tail) :
            c \in ThinkContents, tail \in {<<>>, <<"\n">>}}
    \cup {ParserInput("think_only", ObjEmpty, Think(c) \o Think(d)) :
            c \in ThinkContents, d \in ThinkContents}
    \cup {ParserInput("empty", ObjEmpty, <<>>)}
    \cup {ParserInput("array", a, pad \o Render(a) \o pad) :
            a \in Arrays, pad \in Paddings}
    \cup {ParserInput("scalar", v, Render(v)) : v \in Scalars}
    \cup {ParserInput("preamble_object", o, Preamble \o Render(o)) :
            o \in Objects}
    \cup {ParserInput("fenced_object", o,
                       pre \o <<FENCE>> \o tag \o <<"\n">> \o Render(o)
                       \o <<"\n", FENCE>>) :
            o \in Objects, pre \in {<<>>, Preamble}, tag \in {<<>>, <<"json">>}}
    \cup {ParserInput("fenced_array_then_object", ObjKeyValue,
                       <<FENCE, "\n", "[", "1", "]", "\n", FENCE, "\n">>
                       \o Render(ObjKeyValue)),
          ParserInput("repeated_key", ObjKeyValue,
                      <<"{", Q, "b", Q, ":", " ", Q, "1", Q, ",", " ",
                        Q, "a", Q, ":", " ", Q, "2", Q, ",", " ",
                        Q, "b", Q, ":", " ", Q, "3", Q, "}">>),
          ParserInput("brace_fragments", ObjKeyValue,
                      <<"Data: ", "{", "not json", "}", " then ">>
                      \o Render(ObjKeyValue)),
          ParserInput("brace_fragments", ObjKeyValue,
                      <<"First ">> \o Render(ObjKeyValue) \o <<" and ">>
                      \o Render(ObjNames)),
          ParserInput("brace_fragments", ObjKeyValue,
                      <<"{", Q, "outer", Q, ":", " ">> \o Render(ObjKeyValue)),
          ParserInput("brace_fragments", ObjKeyValue,
                      <<"Result: ", "{", "{", "}", "}", " ">>
                      \o Render(ObjKeyValue)),
          ParserInput("think_unterminated", ObjWrong,
                      <<"<think>", "\n", "The document shows ">>
                      \o Render(ObjWrong) \o <<" but let me">>),
          ParserInput("think_unterminated", ObjWrong,
                      <<"<think>", "\n", "The document shows ">>
                      \o Render(ObjWrong) \o <<" so the answer is", "\n">>
                      \o Render(ObjNames)),
          ParserInput("think_unterminated", ObjWrong,
                      <<"<think>", "\n", FENCE, "json", "\n">>
                      \o Render(ObjWrong) \o <<"\n", FENCE, "\n">>),
          ParserInput("think_unterminated_plain", ObjEmpty,
                      <<"<think>", "\n", "Let me analyze this document...">>),
          ParserInput("plain", ObjEmpty, <<"no json here">>),
          ParserInput("plain", ObjEmpty, <<"{", Q, "first_name", Q, ":">>)}

\* parsed = try_parse_json(raw)
ParseCallTry ==
    /\ t_pc = "called"
    /\ t_tried' = StrategiesTried(t_input[1].text)
    /\ t_parsed' = <<try_parse_json(t_input[1].text)>>
    /\ t_pc' = "parsed"
    /\ UNCHANGED <<t_input, t_doc_type, t_fields>>
    /\ UNCHANGED OutsideParser

\* the rest of parse_json_from_response: the early return and the loop
ParseCallBuild ==
    /\ t_pc = "parsed"
    /\ t_fields' = <<parse_json_from_response(t_input[1].text, t_doc_type)>>
    /\ t_pc' = "done"
    /\ UNCHANGED <<t_input, t_doc_type, t_tried, t_parsed>>
    /\ UNCHANGED OutsideParser

\* parse_json_from_response(raw, doc_type) is called
InitParser ==
    /\ retry_attempts = GPU_RETRY_ATTEMPTS
    /\ DefaultBackoff
    /\ now = 0
    /\ RequestIdle
    /\ CallsIdle
    /\ HealthIdle
    /\ PipelineIdle
    /\ GpuIdle
    /\ EndpointIdle
    /\ t_pc = "called"
    /\ t_input \in {<<in>> : in \in ParserInputs}
    /\ t_doc_type \in DocTypes
    /\ t_tried = <<>>
    /\ t_parsed = <<>>
    /\ t_fields = <<>>

NextParser ==
    \/ ParseCallTry
    \/ ParseCallBuild

SpecParser == InitParser /\ [][NextParser]_vars

(***************************************************************************)
(* The GPU inference service (vision-gpu/main.py, engine.py): the loader   *)
(* thread started by lifespan and the /infer handler.  The handler is a    *)
(* coroutine without an await, so one request is handled at a time, while  *)
(* the loader thread runs between any two of its statements.               *)
(***************************************************************************)
MaxRequests == 3

NotBase64 == [text |-> <<"not base64!">>]

\* a validated InferRequest
InferRequest(image_b64, text) == [image_b64 |-> image_b64, prompt |-> text]

InferRequests ==
    {InferRequest(b, <<"prompt">>) : b \in {b64encode(JpegBytes(768, 1024, <<>>)), NotBase64}}

\* base64.b64decode(req.image_b64): the bytes, or an exception
b64decode(s) ==
    IF "b64" \in DOMAIN s THEN [ok |-> TRUE, bytes |-> s.b64]
    ELSE [ok |-> FALSE, bytes |-> EmptyBytes]

\* what engine.extract does: the model's text, or an exception with a message
ExtractOutcomes ==
    {[raised |-> FALSE, text |-> TextOneField],
     [raised |-> TRUE, text |-> <<"CUDA out of memory">>]}

\* variant: the handler does not look at the flag
NotReady_Never(model_ready) == FALSE

\* if not _model_ready
NotReady(model_ready) == ~model_ready

\* JSONResponse(status_code=..., content={"detail": ...})
DetailResponse(status, detail) ==
    [status |-> status, json |-> TRUE, detail |-> detail, text |-> <<>>]

\* the 200 answer: InferResponse(text, model_id, inference_time_ms)
InferResponse(text) ==
    [status |-> 200, json |-> TRUE, detail |-> <<>>, text |-> text]

\* what the framework answers when an exception leaves the handler: status
\* 500 with a plain-text body
UnhandledResponse ==
    [status |-> 500, json |-> FALSE, detail |-> <<"Internal Server Error">>,
     text |-> <<>>]

\* variant: the answer of a service that is not ready uses status 500
NotReadyResponse_AsFailure ==
    DetailResponse(500, <<"Model is still loading, please retry">>)

\* the answer of a service that is not ready
NotReadyResponse ==
    DetailResponse(503, <<"Model is still loading, please retry">>)

\* one answered request: the flag as the handler read it, whether
\* engine.extract was called, and the loader's position at the answer
Answered(req, ready, invoked, resp) ==
    [req |-> req, ready |-> ready, engine_invoked |-> invoked,
     status |-> resp.status, json |-> resp.json, detail |-> resp.detail,
     text |-> resp.text, loader |-> g_loader]

\* variant: init_engine returns without having stored the engine
EngineAfterInit_Unset(ok) == FALSE

\* init_engine: _engine = VisionEngine(), not reached when VisionEngine raises
EngineAfterInit(ok) == ok

\* lifespan: thread.start()
Lifespan ==
    /\ g_loader = "idle"
    /\ g_loader' = "started"
    /\ UNCHANGED <<g_engine, g_model_ready, g_handler, g_log>>
    /\ UNCHANGED OutsideGpu

\* _load_model: init_engine() sets _engine, or raises and the loader ends
InitEngine ==
    /\ g_loader = "started"
    /\ \E ok \in BOOLEAN :
           /\ g_engine' = EngineAfterInit(ok)
           /\ g_loader' = IF ok THEN "engine_set" ELSE "failed"
    /\ UNCHANGED <<g_model_ready, g_handler, g_log>>
    /\ UNCHANGED OutsideGpu

\* _load_model: _model_ready = True
SetReady ==
    /\ g_loader = "engine_set"
    /\ g_model_ready' = TRUE
    /\ g_loader' = "done"
    /\ UNCHANGED <<g_engine, g_handler, g_log>>
    /\ UNCHANGED OutsideGpu

\* infer: the readiness test of a new request
InferCheckReady ==
    /\ g_loader # "idle"
    /\ g_handler = <<>>
    /\ Len(g_log) < MaxRequests
    /\ \E req \in InferRequests :
           IF NotReady(g_model_ready)
           THEN /\ g_log' = Append(g_log,
                        Answered(req, g_model_ready, FALSE, NotReadyResponse))
                /\ UNCHANGED g_handler
           ELSE /\ g_handler' = <<[req |-> req, ready |-> g_model_ready,
                                   pc |-> "decode", bytes |-> EmptyBytes]>>
                /\ UNCHANGED g_log
    /\ UNCHANGED <<g_loader, g_engine, g_model_ready>>
    /\ UNCHANGED OutsideGpu

\* infer: base64.b64decode inside its try
InferDecode ==
    /\ g_handler # <<>>
    /\ g_handler[1].pc = "decode"
    /\ LET h       == g_handler[1]
           decoded == b64decode(h.req.image_b64)
       IN  IF ~decoded.ok
           THEN /\ g_log' = Append(g_log,
                        Answered(h.req, h.ready, FALSE,
                            DetailResponse(400, <<"Invalid base64 image data">>)))
                /\ g_handler' = <<>>
           ELSE /\ g_handler' = <<[h EXCEPT !.pc = "get_engine",
                                           !.bytes = decoded.bytes]>>
                /\ UNCHANGED g_log
    /\ UNCHANGED <<g_loader, g_engine, g_model_ready>>
    /\ UNCHANGED OutsideGpu

\* infer: engine = get_engine(), outside any try
InferGetEngine ==
    /\ g_handler # <<>>
    /\ g_handler[1].pc = "get_engine"
    /\ LET h == g_handler[1]
       IN  IF ~g_engine
           THEN /\ g_log' = Append(g_log,
                        Answered(h.req, h.ready, FALSE, UnhandledResponse))
                /\ g_handler' = <<>>
           ELSE /\ g_handler' = <<[h EXCEPT !.pc = "extract"]>>
                /\ UNCHANGED g_log
    /\ UNCHANGED <<g_loader, g_engine, g_model_ready>>
    /\ UNCHANGED OutsideGpu

\* infer: engine.extract inside its try, then the answer
InferExtract ==
    /\ g_handler # <<>>
    /\ g_handler[1].pc = "extract"
    /\ \E outcome \in ExtractOutcomes :
           LET h == g_handler[1]
           IN  g_log' = Append(g_log,
                   Answered(h.req, h.ready, TRUE,
                       IF outcome.raised
                       THEN DetailResponse(500,
                                <<"Inference failed: ">> \o outcome.text)
                       ELSE InferResponse(outcome.text)))
    /\ g_handler' = <<>>
    /\ UNCHANGED <<g_loader, g_engine, g_model_ready>>
    /\ UNCHANGED OutsideGpu

\* the module is imported: _model_ready = False, _engine = None
InitGpu ==
    /\ retry_attempts = GPU_RETRY_ATTEMPTS
    /\ DefaultBackoff
    /\ now = 0
    /\ RequestIdle
    /\ CallsIdle
    /\ HealthIdle
    /\ PipelineIdle
    /\ ParserIdle
    /\ GpuIdle
    /\ EndpointIdle

NextGpu ==
    \/ Lifespan
    \/ InitEngine
    \/ SetReady
    \/ InferCheckReady
    \/ InferDecode
    \/ InferGetEngine
    \/ InferExtract

SpecGpu == InitGpu /\ [][NextGpu]_vars

(***************************************************************************)
(* One infer call of the brain client against a GPU service that is        *)
(* starting: each attempt of the call is a request to /infer, answered by  *)
(* the handler above while the loader thread runs.                         *)
(***************************************************************************)
\* the request GPUClient.infer posts
ClientRequest ==
    InferRequest(b64encode(JpegBytes(768, 1024, <<>>)), <<"prompt">>)

\* the answer of /infer as httpx hands it to _send_infer
ReplyOf(answer) ==
    HttpResponse(answer.status,
                 IF ~answer.json THEN NotJsonBody
                 ELSE IF answer.status = 200
                 THEN TextBody(TextStr(answer.text), 100)
                 ELSE DetailBody(answer.detail))

\* infer(preprocessed_bytes, prompt) once the service accepts connections
ColdInfer ==
    /\ g_loader # "idle"
    /\ call_pc[1] = "idle"
    /\ call_attempt' = [call_attempt EXCEPT ![RetryStateOf(1)] = 1]
    /\ call_pc' = [call_pc EXCEPT ![1] = "send"]
    /\ UNCHANGED <<call_log, call_sleeps>>
    /\ UNCHANGED OutsideCalls

\* self._client.post("/infer", json=payload) reaches the handler, which tests
\* the readiness flag
ColdPost ==
    /\ call_pc[1] = "send"
    /\ g_handler = <<>>
    /\ Len(g_log) = Len(call_log[1])
    /\ IF NotReady(g_model_ready)
       THEN /\ g_log' = Append(g_log,
                    Answered(ClientRequest, g_model_ready, FALSE,
                             NotReadyResponse))
            /\ UNCHANGED g_handler
       ELSE /\ g_handler' = <<[req |-> ClientRequest, ready |-> g_model_ready,
                               pc |-> "decode", bytes |-> EmptyBytes]>>
            /\ UNCHANGED g_log
    /\ UNCHANGED <<g_loader, g_engine, g_model_ready>>
    /\ UNCHANGED OutsideGpu

\* the answer arrives: the rest of _send_infer, then tenacity's decision
ColdReceive ==
    /\ call_pc[1] = "send"
    /\ g_handler = <<>>
    /\ Len(g_log) = Len(call_log[1]) + 1
    /\ LET outcome == _send_infer(ReplyOf(g_log[Len(g_log)]))
           n       == call_attempt[RetryStateOf(1)]
           retry   == /\ retry_if_exception_type(outcome)
                      /\ ~stop_after_attempt(retry_attempts, n)
       IN  /\ call_log' = [call_log EXCEPT ![1] =
                   Append(@, [attempt_number |-> n, outcome |-> outcome])]
           /\ call_pc' = [call_pc EXCEPT ![1] = IF retry THEN "sleep" ELSE "done"]
    /\ UNCHANGED <<call_attempt, call_sleeps>>
    /\ UNCHANGED OutsideCalls

InitColdStart ==
    /\ retry_attempts \in 1..MaxAttempts
    /\ DefaultBackoff
    /\ now = 0
    /\ RequestIdle
    /\ CallsIdle
    /\ HealthIdle
    /\ PipelineIdle
    /\ ParserIdle
    /\ GpuIdle
    /\ EndpointIdle

NextColdStart ==
    \/ Lifespan
    \/ InitEngine
    \/ SetReady
    \/ ColdInfer
    \/ ColdPost
    \/ InferDecode
    \/ InferGetEngine
    \/ InferExtract
    \/ ColdReceive
    \/ CallSleep(1)

SpecColdStart == InitColdStart /\ [][NextColdStart]_vars

(***************************************************************************)
(* The brain service's endpoints (vision-brain/main.py): lifespan, extract  *)
(* and /health.  The two globals are written by lifespan only, so the       *)
(* handlers do not affect one another and are taken one at a time.          *)
(***************************************************************************)
MaxUploads == 2

GpuServiceUrls == {<<>>, <<"http://vision-gpu:8092">>}

Uploads == {EmptyBytes, NotAnImage, JpegBytes(200, 300, <<>>)}

\* the form of one extract request
ExtractRequests ==
    {[file |-> f, document_type |-> dt] : f \in Uploads, dt \in DocTypes}

\* variant: the handler does not look at the globals
GpuMissing_Never(gpu_available, gpu_client) == FALSE

\* if not _gpu_available or _gpu_client is None
GpuMissing(gpu_available, gpu_client) == ~gpu_available \/ ~gpu_client

\* if not image_bytes
EmptyUpload(image_bytes) == image_bytes.fmt = "empty"

\* one answered request: what the handler did and the globals it ran under
Handled(kind, req, status, read, extracted) ==
    [kind |-> kind, req |-> req, status |-> status, read |-> read,
     extracted |-> extracted, client |-> e_client, available |-> e_available]

\* lifespan up to the yield: without a URL nothing is built; with one,
\* GPUClient() is built (or raises and the service does not start) and
\* health() is probed, which only logs
BrainLifespan ==
    /\ e_pc = "init"
    /\ IF e_url = <<>>
       THEN /\ e_available' = FALSE
            /\ e_pc' = "serving"
            /\ UNCHANGED e_client
       ELSE \E built \in BOOLEAN :
                /\ e_client' = built
                /\ e_available' = built
                /\ e_pc' = IF built THEN "serving" ELSE "failed"
    /\ UNCHANGED <<e_url, e_handler, e_log>>
    /\ UNCHANGED OutsideEndpoint

\* extract: the test of the two globals
ExtractCheck ==
    /\ e_pc = "serving"
    /\ e_handler = <<>>
    /\ Len(e_log) < MaxUploads
    /\ \E req \in ExtractRequests :
           IF GpuMissing(e_available, e_client)
           THEN /\ e_log' = Append(e_log,
                                   Handled("extract", req, 503, FALSE, FALSE))
                /\ UNCHANGED e_handler
           ELSE /\ e_handler' = <<[req |-> req, pc |-> "read"]>>
                /\ UNCHANGED e_log
    /\ UNCHANGED <<e_pc, e_url, e_client, e_available>>
    /\ UNCHANGED OutsideEndpoint

\* extract: image_bytes = await file.read() and the test for an empty upload
ExtractRead ==
    /\ e_handler # <<>>
    /\ e_handler[1].pc = "read"
    /\ LET req == e_handler[1].req
       IN  IF EmptyUpload(req.file)
           THEN /\ e_log' = Append(e_log,
                                   Handled("extract", req, 400, TRUE, FALSE))
                /\ e_handler' = <<>>
           ELSE /\ e_handler' = <<[e_handler[1] EXCEPT !.pc = "run"]>>
                /\ UNCHANGED e_log
    /\ UNCHANGED <<e_pc, e_url, e_client, e_available>>
    /\ UNCHANGED OutsideEndpoint

\* extract: extract_from_image(image_bytes, document_type, _gpu_client)
\* returns its response, or lets an exception through to the framework
ExtractRun ==
    /\ e_handler # <<>>
    /\ e_handler[1].pc = "run"
    /\ \E returns \in BOOLEAN :
           e_log' = Append(e_log,
                           Handled("extract", e_handler[1].req,
                                   IF returns THEN 200 ELSE 500, TRUE, TRUE))
    /\ e_handler' = <<>>
    /\ UNCHANGED <<e_pc, e_url, e_client, e_available>>
    /\ UNCHANGED OutsideEndpoint

\* /health: gpu_available, and the GPU probe when there is a client
BrainHealth ==
    /\ e_pc = "serving"
    /\ e_handler = <<>>
    /\ Len(e_log) < MaxUploads
    /\ e_log' = Append(e_log,
                       Handled("health", [file |-> EmptyBytes,
                                          document_type |-> <<>>],
                               200, FALSE, FALSE))
    /\ UNCHANGED <<e_pc, e_url, e_client, e_available, e_handler>>
    /\ UNCHANGED OutsideEndpoint

\* lifespan after the yield: the client is closed
BrainShutdown ==
    /\ e_pc = "serving"
    /\ e_handler = <<>>
    /\ e_pc' = "closed"
    /\ UNCHANGED <<e_url, e_client, e_available, e_handler, e_log>>
    /\ UNCHANGED OutsideEndpoint

\* the module is imported with GPU_SERVICE_URL set or empty
InitEndpoint ==
    /\ retry_attempts = GPU_RETRY_ATTEMPTS
    /\ DefaultBackoff
    /\ now = 0
    /\ RequestIdle
    /\ CallsIdle
    /\ HealthIdle
    /\ PipelineIdle
    /\ ParserIdle
    /\ GpuIdle
    /\ e_pc = "init"
    /\ e_url \in GpuServiceUrls
    /\ e_client = FALSE
    /\ e_available = FALSE
    /\ e_handler = <<>>
    /\ e_log = <<>>

NextEndpoint ==
    \/ BrainLifespan
    \/ ExtractCheck
    \/ ExtractRead
    \/ ExtractRun
    \/ BrainHealth
    \/ BrainShutdown

SpecEndpoint == InitEndpoint /\ [][NextEndpoint]_vars

(***************************************************************************)
(* Properties                                                              *)
(***************************************************************************)
\* part in text, for Python strings
Contains(text, part) ==
    \E i \in 1..(Len(text) - Len(part) + 1) :
        SubSeq(text, i, i + Len(part) - 1) = part

InferEnded == infer_result # <<>>
Registered(dt) == dt \in DOMAIN PROMPTS
Count(seq, x) == Cardinality({i \in 1..Len(seq) : seq[i] = x})

\* the backend's answer is transient-unavailable: status 503, a connection
\* failure, a connect timeout or a read timeout
TransientAnswer(reply) ==
    \/ reply.kind \in {"ConnectError", "ConnectTimeout", "ReadTimeout"}
    \/ reply.kind = "response" /\ reply.status = 503

\* the backend's answer is a success: status 200 with a text payload
SuccessAnswer(reply) ==
    /\ reply.kind = "response" /\ reply.status = 200
    /\ reply.body.shape = "object" /\ reply.body.has_text

IsUnavailable(outcome) ==
    outcome.tag = "raise" /\ outcome.exc = "GPUServiceUnavailable"
IsError(outcome) ==
    outcome.tag = "raise" /\ outcome.exc = "GPUServiceError"

\* C1: when every attempt of an infer call configured with N >= 1 attempts is
\* answered transient-unavailable, the call sends exactly N requests and then
\* raises the GPUServiceUnavailable of its N-th attempt.
C1_ExhaustsAllAttempts ==
    (/\ retry_attempts >= 1
     /\ \A i \in 1..Len(attempts) : TransientAnswer(attempts[i].reply))
    => /\ Len(attempts) <= retry_attempts
       /\ Len(attempts) < retry_attempts => ~InferEnded
       /\ InferEnded =>
            /\ Len(attempts) = retry_attempts
            /\ IsUnavailable(infer_result[1])
            /\ infer_result[1] = attempts[retry_attempts].outcome

\* C2: when the first k < N attempts are answered transient-unavailable the
\* call goes on to attempt k+1, and when that attempt succeeds the call ends
\* there, after exactly k+1 requests, returning the payload of that response.
C2_SuccessAfterTransient ==
    \A k \in 0..Len(attempts) :
        (/\ retry_attempts >= 1
         /\ k < retry_attempts
         /\ \A i \in 1..k : TransientAnswer(attempts[i].reply))
        => /\ k = Len(attempts) => ~InferEnded
           /\ (k + 1 <= Len(attempts) /\ SuccessAnswer(attempts[k + 1].reply)) =>
                /\ Len(attempts) = k + 1
                /\ infer_result =
                     <<Return(attempts[k + 1].reply.body.text,
                              IF attempts[k + 1].reply.body.has_ms
                              THEN attempts[k + 1].reply.body.ms ELSE 0)>>

\* C3: a GPUServiceError is never retried: the attempt that raises it is the
\* last request of the call, infer raises that very error, and no backoff
\* pause follows it (one pause per earlier attempt, none after).
C3_ErrorNeverRetried ==
    \A i \in 1..Len(attempts) :
        IsError(attempts[i].outcome)
        => /\ i = Len(attempts)
           /\ pc = "done"
           /\ infer_result = <<attempts[i].outcome>>
           /\ Len(sleeps) = i - 1

C3_Witness ==
    /\ pc = "done"
    /\ Len(attempts) >= 2
    /\ IsError(attempts[Len(attempts)].outcome)
    /\ retry_attempts > Len(attempts)

\* C4: every send is classified by its transport failure or status alone: a
\* connection failure, connect timeout, read timeout or status 503 gives
\* GPUServiceUnavailable, every status other than 200 and 503 gives
\* GPUServiceError carrying the backend's detail, status 200 gives success.
C4_Classification ==
    \A i \in 1..Len(attempts) :
        LET reply   == attempts[i].reply
            outcome == attempts[i].outcome
        IN  /\ TransientAnswer(reply) => IsUnavailable(outcome)
            /\ (reply.kind = "response" /\ reply.status \notin {200, 503})
                  => /\ IsError(outcome)
                     /\ reply.body.has_detail => outcome.msg = reply.body.detail
            /\ (reply.kind = "response" /\ reply.status = 200)
                  => outcome.tag = "return"
            /\ ~(IsUnavailable(outcome) /\ IsError(outcome))

\* C5: infer returns (rawText, elapsedMs) or raises GPUServiceUnavailable or
\* GPUServiceError, and never any other exception.
C5_OnlyTwoErrorKinds ==
    InferEnded =>
        \/ infer_result[1].tag = "return"
        \/ infer_result[1].exc \in {"GPUServiceUnavailable", "GPUServiceError"}

\* C6: every path through extract_from_image returns a fully-formed
\* ExtractionResponse and no exception leaves it.
C6_AlwaysAResponse ==
    pc = "done" =>
        /\ escaped = "none"
        /\ Len(response) = 1
        /\ DOMAIN response[1] =
             {"document_type", "fields", "warnings", "processing_time_ms"}

\* C7: for a document type with no registered prompt the response has zero
\* fields, exactly one warning containing the type name and
\* processing_time_ms = 0, and neither preprocessing nor the client ran.
C7_UnknownType ==
    (request # <<>> /\ ~Registered(request[1].doc_type))
    => /\ pc = "done"
       /\ Len(response) = 1
       /\ response[1].document_type = request[1].doc_type
       /\ response[1].fields = <<>>
       /\ Len(response[1].warnings) = 1
       /\ Contains(response[1].warnings[1], request[1].doc_type)
       /\ response[1].processing_time_ms = 0
       /\ trace = <<>> /\ preprocessed = <<>>
       /\ payload = <<>> /\ attempts = <<>> /\ ~InferEnded

C7_Witness ==
    /\ pc = "done"
    /\ request # <<>> /\ request[1].doc_type = <<"unknown_type">>
    /\ response # <<>>

\* the messages an exception raised by infer can carry
Messages == {_send_infer(reply).msg : reply \in Replies}

\* C8: when infer raises GPUServiceUnavailable or GPUServiceError the response
\* has no fields and exactly one warning embedding the failure detail, the
\* parser did not run, and the warning tells the two kinds apart: one mentions
\* "unavailable", the other "failed", and neither text can come from the other
\* kind.
C8_FailureWarnings ==
    (InferEnded /\ (IsUnavailable(infer_result[1]) \/ IsError(infer_result[1])))
    => /\ Len(response) = 1
       /\ response[1].fields = <<>>
       /\ Len(response[1].warnings) = 1
       /\ Contains(response[1].warnings[1], infer_result[1].msg)
       /\ Count(trace, "parse") = 0
       /\ escaped = "none"
       /\ IsUnavailable(infer_result[1]) =>
            /\ Contains(response[1].warnings[1], <<"unavailable">>)
            /\ \A m \in Messages : response[1].warnings[1] # ErrorWarning(m)
       /\ IsError(infer_result[1]) =>
            /\ Contains(response[1].warnings[1], <<"failed">>)
            /\ \A m \in Messages : response[1].warnings[1] # UnavailableWarning(m)

C8_Witness ==
    /\ InferEnded /\ IsUnavailable(infer_result[1])
    /\ Len(attempts) = 3
    /\ response # <<>>
    /\ response[1].warnings = <<UnavailableWarning(<<"Model loading">>)>>

\* C9: in every returned response warnings is non-empty exactly when fields is
\* empty; an empty field list comes with exactly one warning, a non-empty one
\* with none.
C9_WarningsIffNoFields ==
    response # <<>>
    => /\ (response[1].warnings # <<>>) <=> (response[1].fields = <<>>)
       /\ response[1].fields = <<>> => Len(response[1].warnings) = 1
       /\ response[1].fields # <<>> => response[1].warnings = <<>>

C9_Witness ==
    /\ InferEnded /\ infer_result[1].tag = "return"
    /\ infer_result[1].text = TextStr(TextNoField)
    /\ response # <<>>
    /\ response[1].fields = <<>>
    /\ response[1].warnings = <<EmptyWarning>>

\* C10: for a registered document type the steps run once each and in order:
\* preprocess, then one call of infer with the bytes preprocess returned and
\* the prompt of the type, then the parser, which runs only after infer
\* returned; the steps after preprocess are not repeated by the orchestrator.
C10_PipelineOrder ==
    /\ Count(trace, "preprocess") <= 1
    /\ Count(trace, "infer") <= 1
    /\ Count(trace, "parse") <= 1
    /\ trace # <<>> => (Registered(request[1].doc_type) /\ trace[1] = "preprocess")
    /\ Count(trace, "infer") = 1 =>
        /\ Len(trace) >= 2 /\ trace[2] = "infer"
        /\ preprocessed # <<>>
        /\ payload = <<[image_b64 |-> b64encode(preprocessed[1]),
                        prompt |-> PROMPTS[request[1].doc_type]]>>
    /\ (attempts # <<>> \/ payload # <<>>) => Count(trace, "infer") = 1
    /\ Count(trace, "parse") = 1 =>
        /\ trace[Len(trace)] = "parse"
        /\ Count(trace, "infer") = 1
        /\ InferEnded /\ infer_result[1].tag = "return"
    /\ (pc = "done" /\ Registered(request[1].doc_type)) =>
        (Count(trace, "preprocess") = 1 /\ Count(trace, "infer") = 1)

C10_Witness ==
    /\ pc = "done"
    /\ Count(trace, "parse") = 1
    /\ Len(attempts) >= 2
    /\ preprocessed # <<>> /\ preprocessed[1] # request[1].image_bytes

\* C11: retry state is per call.  With infer calls running concurrently on
\* one client, every call numbers its own attempts 1, 2, ..., makes at most
\* N requests, has contacted the backend once it has ended, and ends with
\* GPUServiceUnavailable only after N requests of its own; its pauses are
\* those of its own attempts.
C11_RetryStatePerCall ==
    \A c \in Calls :
        /\ \A i \in 1..Len(call_log[c]) : call_log[c][i].attempt_number = i
        /\ Len(call_log[c]) <= retry_attempts
        /\ \A i \in 1..(Len(call_log[c]) - 1) :
               IsUnavailable(call_log[c][i].outcome)
        /\ call_pc[c] = "sleep" =>
               /\ Len(call_log[c]) < retry_attempts
               /\ Len(call_sleeps[c]) = Len(call_log[c]) - 1
        /\ call_pc[c] = "done" =>
               /\ Len(call_log[c]) >= 1
               /\ Len(call_sleeps[c]) = Len(call_log[c]) - 1
               /\ IsUnavailable(call_log[c][Len(call_log[c])].outcome)
                      => Len(call_log[c]) = retry_attempts

\* call 2 has used up its three attempts on transient failures while call 1
\* is pausing after its second, and call 1 can still go on
C11_Witness ==
    /\ retry_attempts = 3
    /\ call_pc[2] = "done" /\ Len(call_log[2]) = 3
    /\ IsUnavailable(call_log[2][3].outcome)
    /\ call_pc[1] = "sleep" /\ Len(call_log[1]) = 2
    /\ call_log[1][2].attempt_number = 2

\* C12: the pause after the n-th failed attempt is
\* min(baseDelay * backoffFactor^(n-1), 120) seconds: never above 120, and
\* 5 s then 10 s with the defaults 5 and 2.
C12_BackoffPauses ==
    LET pauses == call_sleeps[1]
        Expected(n) ==
            LET raw == retry_delay * Pow(retry_backoff, n - 1)
            IN  IF raw < 120 THEN raw ELSE 120
    IN  /\ \A n \in 1..Len(pauses) :
               /\ IsUnavailable(call_log[1][n].outcome)
               /\ pauses[n] = Expected(n)
               /\ pauses[n] <= 120
        /\ (retry_delay = 5 /\ retry_backoff = 2) =>
               /\ Len(pauses) >= 1 => pauses[1] = 5
               /\ Len(pauses) >= 2 => pauses[2] = 10

\* default delay and backoff, six pauses taken, the sixth cut to 120 s
C12_Witness ==
    /\ retry_delay = 5 /\ retry_backoff = 2
    /\ Len(call_sleeps[1]) = 6
    /\ call_sleeps[1][1] = 5 /\ call_sleeps[1][2] = 10
    /\ call_sleeps[1][5] = 80 /\ call_sleeps[1][6] = 120

\* the probe failed: no answer came, or the answer's body is not JSON
ProbeFailed(probe) == probe.kind # "response" \/ probe.body.shape = "not_json"

StageEntries(stage) == {i \in 1..Len(p_log) : p_log[i].stage = stage}
Decoded == \E i \in StageEntries("decode") : p_log[i].output # <<>>
MaxSide(img) == IF img.w > img.h THEN img.w ELSE img.h

\* C14: zero bytes are rejected before any decode: the decoder is never
\* handed the empty byte sequence, whether preprocess is called by
\* extract_from_image or directly.
C14_EmptyNeverDecoded ==
    \A i \in StageEntries("decode") : p_log[i].input # EmptyBytes

ResultImage == _decode(p_result[1])

\* the resize stage left the image alone for being within a tenth of the
\* target in both directions
SkippedForTolerance ==
    \E i \in StageEntries("resize") :
        LET img    == p_log[i].input
            target == IF img.w > img.h THEN [w |-> 1024, h |-> 768]
                      ELSE [w |-> 768, h |-> 1024]
        IN  /\ 10 * Abs(img.w - target.w) < target.w
            /\ 10 * Abs(img.h - target.h) < target.h

C19_SmallQuadSkipsCrop ==
    \A i \in StageEntries("crop") :
        LET img   == p_log[i].input
            out   == p_log[i].output
            quads == p_log[i].cv.quads
        IN  /\ out # img => (out.w >= 100 /\ out.h >= 100)
            /\ (/\ ~p_log[i].failed
                /\ quads # <<>>
                /\ (quads[1].w < 100 \/ quads[1].h < 100)) => out = img

\* C20: deskew returns its input unchanged whenever fewer than 3 of the
\* detected lines lie within 45 degrees of the horizontal, and whenever the
\* magnitude of the median angle of those lines is below 5 degrees.
C20_DeskewNoOp ==
    \A i \in StageEntries("deskew") :
        LET candidates == NearHorizontal(p_log[i].cv.angles)
        IN  (\/ Len(candidates) < 3
             \/ Abs(MedianTimes2(candidates)) < 2 * 5)
                => p_log[i].output = p_log[i].input

(***************************************************************************)
(* The response parser: try_parse_json and parse_json_from_response         *)
(***************************************************************************)
ParseTried == t_pc \in {"parsed", "done"}
ParserRaw == t_input[1].text
ParserShape == t_input[1].shape
ParserValue == t_input[1].value
ParsedDict == t_parsed[1]
Fields == t_fields[1]
StrategyNumbers == [i \in 1..Len(t_tried) |-> t_tried[i].strategy]

\* C21: try_parse_json tries, on the text left after removing reasoning
\* blocks, the whole text, then the content of a fenced block, then the first
\* brace-delimited substring, each only when the previous ones failed; it
\* returns the object of the first strategy that yields one and returns none
\* exactly when all of them fail.
C21_StrategyOrder ==
    ParseTried =>
        LET cleaned == Cleaned(ParserRaw)
            direct  == DirectStrategy(cleaned)
            fenced  == FenceStrategy(cleaned)
            braced  == BraceStrategy(cleaned)
        IN  /\ \A i \in 1..Len(t_tried) :
                    /\ i < Len(t_tried) => ~t_tried[i].result.some
                    /\ \A j \in 1..Len(t_tried) :
                           i < j => t_tried[i].strategy < t_tried[j].strategy
            /\ t_tried # <<>> =>
                    /\ t_tried[1].strategy = 1
                    /\ t_tried[1].text = cleaned
            /\ direct.some => ParsedDict = direct
            /\ (~direct.some /\ fenced.some) => ParsedDict = fenced
            /\ (~direct.some /\ ~fenced.some /\ braced.some)
                    => ParsedDict = braced
            /\ ~ParsedDict.some
                    <=> (~direct.some /\ ~fenced.some /\ ~braced.some)

\* the direct parse and the fenced block both failed and the brace search
\* gave the object
C21_Witness ==
    /\ ParseTried
    /\ StrategyNumbers = <<1, 2, 3>>
    /\ ParsedDict.some
    /\ ParsedDict = t_tried[3].result

C24_ArrayReturnsNone ==
    (ParseTried /\ ParserShape \in {"array", "scalar"}) => ~ParsedDict.some

\* C24: for an input whose text is a JSON array or a scalar, the direct
\* parse is not accepted and the result is never the array; the result is
\* none when the text holds no brace, and otherwise what the brace search
\* gives (the first innermost object of the array).
C24_ArrayItselfNeverAccepted ==
    (ParseTried /\ ParserShape \in {"array", "scalar"}) =>
        /\ t_tried[1].strategy = 1
        /\ ~t_tried[1].result.some
        /\ ParsedDict.some => ParsedDict.val.type = "obj"
        /\ Count(ParserRaw, "{") = 0 => ~ParsedDict.some
        /\ ParsedDict = BraceStrategy(Cleaned(ParserRaw))

\* an array with an object in it gave that object
C24_Witness ==
    /\ ParseTried
    /\ ParserShape = "array"
    /\ ParserValue.type = "arr"
    /\ ParsedDict = SomeDict(ObjKeyValue)

\* C25: for an input that contains only a reasoning block and no object
\* after it, and for the empty input, try_parse_json returns none.
C25_OnlyThinkBlockReturnsNone ==
    (ParseTried /\ ParserShape \in {"think_only", "empty"}) => ~ParsedDict.some

\* a block holding a well-formed object, with nothing after it, gave none
C25_Witness ==
    /\ ParseTried
    /\ ParserShape = "think_only"
    /\ Contains(ParserRaw, Render(ObjWrong))
    /\ ~ParsedDict.some

KeptValue(v) == v.type = "str" /\ \E j \in 1..Len(v.s) : v.s[j] \notin WS

\* C27: parse_json_from_response emits a field for a key/value pair of the
\* parsed object exactly when the value is a string that is non-empty after
\* trimming, and the value of every emitted field is the trimmed, non-empty
\* string.
C27_FieldsAreNonEmptyStrings ==
    t_pc = "done" =>
        LET items == IF ParsedDict.some THEN ParsedDict.val.items ELSE <<>>
        IN  /\ \A i \in 1..Len(items) :
                    KeptValue(items[i].v)
                        <=> \E f \in 1..Len(Fields) : Fields[f].key = items[i].k
            /\ \A f \in 1..Len(Fields) :
                    /\ Fields[f].value # <<>>
                    /\ Head(Fields[f].value) \notin WS
                    /\ Fields[f].value[Len(Fields[f].value)] \notin WS
                    /\ \E i \in 1..Len(items) :
                           /\ items[i].k = Fields[f].key
                           /\ items[i].v.type = "str"
                           /\ Contains(items[i].v.s, Fields[f].value)
                           /\ \A j \in 1..Len(items[i].v.s) :
                                  items[i].v.s[j] \notin WS
                                      => Count(Fields[f].value, items[i].v.s[j]) > 0

\* of seven entries (padded, empty, blank, number, boolean, null, plain) the
\* padded one came out trimmed and the plain one unchanged
C27_Witness ==
    /\ t_pc = "done"
    /\ ParsedDict = SomeDict(ObjMixed)
    /\ Len(Fields) = 2
    /\ Fields[1].key = <<"first_name">> /\ Fields[1].value = <<"Max">>
    /\ Fields[2].key = <<"city">> /\ Fields[2].value = <<"Berlin">>

\* C28: every emitted field has confidence 0.85 when its key is in the
\* expected-key set of the requested document type and 0.75 otherwise, and
\* its source is the document type string of the request.
C28_ConfidenceAndSource ==
    t_pc = "done" =>
        \A f \in 1..Len(Fields) :
            /\ Fields[f].source = t_doc_type
            /\ Fields[f].confidence \in {75, 85}
            /\ Fields[f].confidence = 85
                   <=> /\ t_doc_type \in DOMAIN EXPECTED_KEYS
                       /\ Fields[f].key \in EXPECTED_KEYS[t_doc_type]

\* one response of a driving licence with an expected and an unexpected key
C28_Witness ==
    /\ t_pc = "done"
    /\ t_doc_type = <<"fuehrerschein">>
    /\ \E f, g \in 1..Len(Fields) :
           /\ Fields[f].key = <<"license_classes">> /\ Fields[f].confidence = 85
           /\ Fields[g].key = <<"street">> /\ Fields[g].confidence = 75

\* C29: the fields hold at most one entry per distinct key, and they appear
\* in the key order of the parsed object.
C29_OnePerKeyInOrder ==
    (t_pc = "done" /\ ParsedDict.some) =>
        LET items == ParsedDict.val.items
        IN  /\ \A f, g \in 1..Len(Fields) :
                    f # g => Fields[f].key # Fields[g].key
            /\ \A f, g \in 1..Len(Fields) :
                    f < g => \E i, j \in 1..Len(items) :
                                /\ i < j
                                /\ items[i].k = Fields[f].key
                                /\ items[j].k = Fields[g].key

\* a text that repeats a key gave one field for it, at its first position
C29_Witness ==
    /\ t_pc = "done"
    /\ ParserShape = "repeated_key"
    /\ Len(Fields) = 2
    /\ Fields[1].key = <<"b">> /\ Fields[1].value = <<"3">>
    /\ Fields[2].key = <<"a">>

(***************************************************************************)
(* The GPU inference service: /infer                                        *)
(***************************************************************************)
\* C30: while the GPU service has not finished loading its model, every
\* /infer request is answered with status 503 and a detail string, the engine
\* is not invoked for it, and 503 is not the status of an undecodable image
\* (400) or of an inference failure (500).
C30_NotReadyIs503 ==
    \A i \in 1..Len(g_log) :
        /\ ~g_log[i].ready =>
               /\ g_log[i].status = 503
               /\ g_log[i].detail # <<>>
               /\ ~g_log[i].engine_invoked
               /\ g_log[i].loader \in {"started", "engine_set", "failed"}
        /\ g_log[i].status \in {400, 500} => g_log[i].ready
        /\ g_log[i].status = 503 => ~g_log[i].ready

\* a request with undecodable image data was answered 503 while the model
\* was loading and another one 400 once it was loaded
C30_Witness ==
    \E i, j \in 1..Len(g_log) :
        /\ i < j
        /\ g_log[i].req.image_b64 = NotBase64
        /\ g_log[i].status = 503 /\ g_log[i].loader = "started"
        /\ g_log[j].req.image_b64 = NotBase64
        /\ g_log[j].status = 400

(***************************************************************************)
(* The client's pauses, other transport failures, the elapsed time          *)
(***************************************************************************)
RECURSIVE SumSeq(_)
SumSeq(seq) == IF seq = <<>> THEN 0 ELSE Head(seq) + SumSeq(Tail(seq))

\* the kinds of transport failure that _send_infer treats as unavailable
UnavailableKinds == {"ConnectError", "ConnectTimeout", "ReadTimeout"}

\* C31: pauses happen only between two consecutive attempts of an infer
\* call: none before the first attempt, none after a success, none after a
\* GPUServiceError and none after the final exhausted attempt, so a finished
\* call has made one pause less than it sent requests.
C31_PausesBetweenAttempts ==
    /\ Len(sleeps) <= Len(attempts)
    /\ Len(attempts) <= Len(sleeps) + 1
    /\ Len(sleeps) < retry_attempts
    /\ \A i \in 1..Len(sleeps) : IsUnavailable(attempts[i].outcome)
    /\ \A i \in 1..Len(trace) :
           trace[i] = "sleep" =>
               /\ i > 1 /\ trace[i - 1] = "send"
               /\ i < Len(trace) => trace[i + 1] = "send"
    /\ InferEnded =>
           /\ Len(sleeps) = Len(attempts) - 1
           /\ trace[Len(trace)] # "sleep"
    /\ pc = "sleep" => Len(attempts) < retry_attempts

\* a call of three attempts, every one unavailable, paused twice
C31_Witness ==
    /\ InferEnded /\ IsUnavailable(infer_result[1])
    /\ retry_attempts = 3
    /\ Len(attempts) = 3
    /\ Len(sleeps) = 2

\* C33: for a registered document type processing_time_ms is the whole
\* number of milliseconds between the entry into extract_from_image and the
\* point where the inference failed or parsing finished; it is not negative
\* and covers preprocessing, every attempt and every pause.
C33_ProcessingTime ==
    (pc = "done" /\ response # <<>> /\ Registered(request[1].doc_type)) =>
        LET ms == response[1].processing_time_ms
        IN  /\ ms >= 0
            /\ ms * 1000 <= now - start
            /\ now - start < (ms + 1) * 1000
            /\ now - start >= PreprocessMicros + Len(attempts) * SendMicros
                                + SumSeq(sleeps) * 1000000

\* a request that entered at 999 microseconds and paused twice
C33_Witness ==
    /\ pc = "done" /\ response # <<>>
    /\ start = 999
    /\ Len(sleeps) = 2
    /\ response[1].processing_time_ms
           = (PreprocessMicros + 3 * SendMicros) \div 1000 + 15000

\* C34: a transport failure other than a connection error, a connect
\* timeout and a read timeout is raised as GPUServiceError: it ends the call
\* without a retry whatever the configured attempt count, so a call that
\* meets it at once has sent exactly one request.
C34_OtherTransportFailures ==
    \A i \in 1..Len(attempts) :
        (/\ attempts[i].reply.kind # "response"
         /\ attempts[i].reply.kind \notin UnavailableKinds) =>
            /\ IsError(attempts[i].outcome)
            /\ Contains(attempts[i].outcome.msg, attempts[i].reply.err)
            /\ i = Len(attempts)
            /\ Len(sleeps) = i - 1
            /\ pc = "done"
            /\ infer_result = <<attempts[i].outcome>>

\* a client of three attempts met a pool timeout at once and stopped
C34_Witness ==
    /\ retry_attempts = 3
    /\ Len(attempts) = 1
    /\ attempts[1].reply.kind = "PoolTimeout"
    /\ InferEnded /\ IsError(infer_result[1])
    /\ sleeps = <<>>

(***************************************************************************)
(* The response parser: the brace fallback and unterminated reasoning text  *)
(***************************************************************************)
\* the brace-delimited fragments of a text that hold no inner brace
InnermostFragments(text) ==
    {f \in (1..Len(text)) \X (1..Len(text)) :
        /\ f[1] < f[2]
        /\ text[f[1]] = "{" /\ text[f[2]] = "}"
        /\ \A k \in (f[1] + 1)..(f[2] - 1) : text[k] \notin {"{", "}"}}

\* the brace fallback is reached: the direct parse and the fenced block failed
BraceFallbackReached ==
    /\ ParseTried
    /\ ParserRaw # <<>>
    /\ ~DirectStrategy(Cleaned(ParserRaw)).some
    /\ ~FenceStrategy(Cleaned(ParserRaw)).some

\* C32: in the brace fallback only the leftmost brace-delimited substring
\* without an inner brace is tried: when it parses as an object it is the
\* result even if a later or enclosing fragment is more complete, and when it
\* does not parse the result is none even if a later fragment is a valid
\* object.
C32_LeftmostInnermostOnly ==
    BraceFallbackReached =>
        LET cleaned == Cleaned(ParserRaw)
            frags   == InnermostFragments(cleaned)
        IN  IF frags = {} THEN ~ParsedDict.some
            ELSE LET first == CHOOSE f \in frags :
                                  \A g \in frags : f[1] <= g[1]
                 IN  ParsedDict = LoadsAsDict(SubSeq(cleaned, first[1], first[2]))

\* the first fragment did not parse and a later one is a valid object: none
C32_Witness ==
    /\ BraceFallbackReached
    /\ ParserShape = "brace_fragments"
    /\ Cardinality(InnermostFragments(Cleaned(ParserRaw))) = 2
    /\ \E f \in InnermostFragments(Cleaned(ParserRaw)) :
           LoadsDict(SubSeq(Cleaned(ParserRaw), f[1], f[2]))
    /\ ~ParsedDict.some

\* C37: when a <think> marker has no matching </think>, nothing is
\* stripped, the fallback strategies search the reasoning text too, and an
\* object inside the unterminated reasoning text is returned.
C37_UnterminatedThinkKept ==
    (ParseTried /\ ParserShape \in {"think_unterminated",
                                    "think_unterminated_plain"}) =>
        /\ Cleaned(ParserRaw) = Strip(ParserRaw)
        /\ t_tried[1].text = Strip(ParserRaw)
        /\ ParserShape = "think_unterminated" =>
               ParsedDict = SomeDict(ParserValue)
        /\ ParserShape = "think_unterminated_plain" => ~ParsedDict.some

\* the object of the reasoning text came back although a complete object
\* follows it
C37_Witness ==
    /\ ParseTried
    /\ ParserShape = "think_unterminated"
    /\ Contains(ParserRaw, Render(ObjNames))
    /\ ParsedDict = SomeDict(ObjWrong)

(***************************************************************************)
(* Preprocessing: the size of what the resize stage gives                   *)
(***************************************************************************)
\* C38: when the resize stage does not fail, its output is exactly 1024x768
\* or 768x1024, or it is the unchanged input whose width and height each
\* differ from the chosen target by strictly less than 10% of that target
\* dimension; so neither side exceeds 1126 pixels, and a square input is
\* treated as portrait.
C38_ResizeOutputSizes ==
    \A i \in StageEntries("resize") :
        LET img    == p_log[i].input
            out    == p_log[i].output
            target == IF img.w > img.h THEN [w |-> 1024, h |-> 768]
                      ELSE [w |-> 768, h |-> 1024]
        IN  ~p_log[i].failed =>
                /\ \/ out.w = 1024 /\ out.h = 768
                   \/ out.w = 768 /\ out.h = 1024
                   \/ /\ out = img
                      /\ 10 * Abs(img.w - target.w) < target.w
                      /\ 10 * Abs(img.h - target.h) < target.h
                /\ out.w <= 1126 /\ out.h <= 1126
                /\ img.w = img.h => (out.w = 768 /\ out.h = 1024)

\* an image of 1126x844, the largest within the tolerance, was left as it was
C38_Witness ==
    \E i \in StageEntries("resize") :
        /\ ~p_log[i].failed
        /\ p_log[i].input.w = 1126 /\ p_log[i].input.h = 844
        /\ p_log[i].output = p_log[i].input

(***************************************************************************)
(* The GPU inference service: readiness and a failed load                   *)
(***************************************************************************)
\* the handler is past get_engine
HandlerHasEngine == g_handler # <<>> /\ g_handler[1].pc = "extract"

\* C35: the readiness flag is set only after engine initialization has
\* completed successfully and is never reset: under every interleaving of the
\* loader thread with request handlers, a handler that saw the service ready
\* finds an initialized engine, so get_engine does not raise inside /infer.
C35_ReadyImpliesEngine ==
    /\ g_model_ready => (g_engine /\ g_loader = "done")
    /\ g_handler # <<>> => (g_handler[1].ready /\ g_engine)
    /\ \A i \in 1..Len(g_log) :
           /\ g_log[i].ready =>
                  /\ g_log[i].loader = "done"
                  /\ g_log[i].json
                  /\ g_log[i].status = 400 \/ g_log[i].engine_invoked
           /\ \A j \in 1..Len(g_log) :
                  (i < j /\ g_log[i].ready) => g_log[j].ready

\* a request answered 503 while the engine existed and the flag was not yet
\* set, then one served by the engine
C35_Witness ==
    \E i, j \in 1..Len(g_log) :
        /\ i < j
        /\ g_log[i].loader = "engine_set" /\ g_log[i].status = 503
        /\ g_log[j].ready /\ g_log[j].engine_invoked /\ g_log[j].status = 200

\* the outcomes of the attempts of the client's call
CallOutcomes == [i \in 1..Len(call_log[1]) |-> call_log[1][i].outcome]

\* C36: when model loading fails, the load is not attempted again and the
\* service never becomes ready: every later /infer request gets status 503,
\* so an infer call of the brain client against it exhausts its N attempts
\* and ends in GPUServiceUnavailable, never in GPUServiceError.
C36_FailedLoadStays503 ==
    /\ g_loader = "failed" => (~g_model_ready /\ ~g_engine /\ g_handler = <<>>)
    /\ \A i \in 1..Len(g_log) :
           g_log[i].loader = "failed" =>
               /\ g_log[i].status = 503
               /\ ~g_log[i].engine_invoked
               /\ \A j \in 1..Len(g_log) :
                      i < j => g_log[j].loader = "failed"
    /\ (g_loader = "failed" /\ call_pc[1] = "done") =>
           /\ Len(call_log[1]) = retry_attempts
           /\ \A i \in 1..Len(call_log[1]) : IsUnavailable(CallOutcomes[i])
           /\ Len(call_sleeps[1]) = retry_attempts - 1

\* a call of three attempts, begun after the load had failed, ended in
\* GPUServiceUnavailable
C36_Witness ==
    /\ g_loader = "failed"
    /\ retry_attempts = 3
    /\ call_pc[1] = "done"
    /\ Len(g_log) = 3
    /\ \A i \in 1..Len(g_log) : g_log[i].loader = "failed"
    /\ IsUnavailable(CallOutcomes[3])
    /\ CallOutcomes[3].msg = <<"Model is still loading, please retry">>

(***************************************************************************)
(* The brain service's extract endpoint                                     *)
(***************************************************************************)
\* C39: extract runs the pipeline only for a non-empty upload while a GPU
\* client exists: without a GPU service URL every request is answered 503
\* without reading the upload and without calling extract_from_image, an
\* empty upload is answered 400 without calling extract_from_image, and after
\* startup a GPU client exists exactly when the service reports itself as
\* GPU-available.
C39_ExtractGuards ==
    /\ \A i \in 1..Len(e_log) :
           /\ e_log[i].client <=> e_log[i].available
           /\ e_log[i].kind = "extract" =>
                  /\ e_log[i].extracted =>
                         /\ e_log[i].client
                         /\ e_log[i].req.file # EmptyBytes
                         /\ e_log[i].read
                  /\ e_url = <<>> =>
                         /\ e_log[i].status = 503
                         /\ ~e_log[i].read
                         /\ ~e_log[i].extracted
                  /\ (e_url # <<>> /\ e_log[i].req.file = EmptyBytes) =>
                         /\ e_log[i].status = 400
                         /\ ~e_log[i].extracted
    /\ e_pc \in {"serving", "closed"} =>
           /\ e_client <=> e_available
           /\ e_client <=> e_url # <<>>

\* with a client, an empty upload was answered 400 and an upload with bytes
\* went through extract_from_image
C39_Witness ==
    /\ e_client /\ e_available
    /\ Len(e_log) = 2
    /\ e_log[1].req.file = EmptyBytes /\ e_log[1].status = 400
    /\ e_log[2].req.file = NotAnImage /\ e_log[2].extracted
    /\ e_log[2].status = 200

====
